---- MODULE Spec2Model ----
(***************************************************************************)
(* Model of src/utils/calculus_utils.py: the numerical-methods and limit   *)
(* services of the calculus utilities.                                     *)
(*                                                                         *)
(* Numbers.  The code computes in floating point; the model computes on a  *)
(* fixed-point grid: every number is an integer count of quanta, and a     *)
(* quotient is rounded to the nearest grid point (ties to even), as a      *)
(* float quotient is rounded to the nearest float.  Function values are    *)
(* counted in quanta of half the derivative threshold of newtons_method,   *)
(* so that the threshold 1e-15 is DerivEps = 2 quanta and a derivative can *)
(* be non-zero and still below it.                                         *)
(*                                                                         *)
(* Functions.  A func argument is a polynomial a*x^2 + b*x + c given by    *)
(* its coefficients; sp.diff and sp.lambdify are computed on it exactly.   *)
(***************************************************************************)
EXTENDS Integers, Sequences, FiniteSets, TLC

\* ------------------------------------------------------------------ bounds
CoefMax == 2
GuessMax == 1
TolMax == 2
MaxIterBound == 2
FinMax == 1
PointMax == 1
SimpNMax == 4
SimpCoefMax == 1
BoundMax == 1
RiemannNMax == 3
RiemannCoefMax == 1
LhMaxIter == 3
StepsMax == 3
SquareMax == 4
FloatGuessMax == 2
IntCoefMax == 1
SectionsMax == 3

\* ---------------------------------------------------------------- helpers
Abs(v) == IF v < 0 THEN -v ELSE v

\* Python's None and a present value, for an optional result.
None == << >>
Some(v) == << v >>

\* A float quotient p / q (q # 0), rounded to the nearest grid point, ties to
\* even.
RoundDiv(p, q) ==
    LET pp == IF q < 0 THEN -p ELSE p
        qq == Abs(q)
        fl == pp \div qq
        r  == pp - fl * qq
    IN  IF 2 * r < qq THEN fl
        ELSE IF 2 * r > qq THEN fl + 1
        ELSE IF fl % 2 = 0 THEN fl ELSE fl + 1

\* The func arguments: polynomials a*x^2 + b*x + c.
Funcs == [a : 0..1, b : -CoefMax..CoefMax, c : -CoefMax..CoefMax]

\* f = sp.lambdify(var, func, 'numpy')
F(fn, v) == fn.a * v * v + fn.b * v + fn.c

\* df = sp.lambdify(var, sp.diff(func, var), 'numpy')
DF(fn, v) == 2 * fn.a * v + fn.b

\* a float is a count of units of LimbBase^-FracLimbs = 1e-16
LimbBase == 10000
FracLimbs == 4

\* ------------------------------------------------------------------ state
VARIABLES
    state,           \* newtons_method: idle, iterating, converged, degenerate, exhausted
    func,            \* newtons_method: the func argument
    initial_guess,   \* newtons_method: the initial_guess argument
    tolerance,       \* newtons_method: the tolerance argument
    max_iterations,  \* newtons_method: the max_iterations argument
    i,               \* newtons_method: the loop index
    xn,              \* newtons_method: the current approximation
    iterations,      \* newtons_method: the iteration records
    warned,          \* newtons_method: the warnings the call has emitted
    ret,             \* newtons_method: the returned (root, iterations)
    cc_in,           \* check_continuity: the call's arguments and the engine's answers
    cc_ret,          \* check_continuity: how the call ended
    cc_calls,        \* check_continuity: the engine calls made, in order
    sr_in,           \* simpsons_rule: the call's arguments
    sr_ret,          \* simpsons_rule: how the call ended
    sr_calls,        \* simpsons_rule: the engine and numeric calls made, in order
    rm_in,           \* riemann_sum: the call's arguments
    rm_ret,          \* riemann_sum: how the call ended
    rm_calls,        \* riemann_sum: the engine and numeric calls made, in order
    lh_state,        \* lhopital_rule: idle, iterating, returned
    lh_max,          \* lhopital_rule: the max_iterations argument
    lh_i,            \* lhopital_rule: the loop index
    lh_num,          \* lhopital_rule: num, as the order of derivative of numerator
    lh_den,          \* lhopital_rule: den, as the order of derivative of denominator
    lh_steps,        \* lhopital_rule: the steps list
    lh_ret,          \* lhopital_rule: the returned (limit, steps)
    ln_in,           \* tangent_line, normal_line: the call's arguments
    ln_ret,          \* tangent_line, normal_line: how the call ended
    cl_in,           \* compute_limit: the call's arguments
    cl_ret,          \* compute_limit: how the call ended
    ut_in,           \* format_step_by_step, plot_function: the call's arguments
    ut_ret,          \* format_step_by_step, plot_function: how the call ended
    th,              \* concurrent newtons_method calls: the locals of each thread
    symbols,         \* the module-level symbols x, y, z, t, n, k, m, a, b, c, h
    pn,              \* newtons_method on floats: the locals of the call
    ig_in,           \* integrate: the call's arguments
    ig_ret,          \* integrate: how the call ended
    sc,              \* create_lecture_folder: the locals of the call
    disk             \* create_lecture_folder: the files of the lecture folder

nmVars == << state, func, initial_guess, tolerance, max_iterations, i, xn,
             iterations, warned, ret >>
ccVars == << cc_in, cc_ret, cc_calls >>
srVars == << sr_in, sr_ret, sr_calls >>
rmVars == << rm_in, rm_ret, rm_calls >>
lhVars == << lh_state, lh_max, lh_i, lh_num, lh_den, lh_steps, lh_ret >>
lnVars == << ln_in, ln_ret >>
clVars == << cl_in, cl_ret >>
utVars == << ut_in, ut_ret >>
thVars == << th, symbols >>
pnVars == << pn >>
igVars == << ig_in, ig_ret >>
scVars == << sc, disk >>

vars == << nmVars, ccVars, srVars, rmVars, lhVars, lnVars, clVars,
          utVars, thVars, pnVars, igVars, scVars >>

Terminal == {"converged", "degenerate", "exhausted"}

NoReturn == [root |-> None, iterations |-> << >>]

\* no call made, or its result dropped
NoCall == [kind |-> "none"]

\* the threads that call newtons_method concurrently
Threads == {1, 2}

\* the locals of a thread that is in no call
ThreadIdle ==
    [state |-> "idle", func |-> [a |-> 0, b |-> 0, c |-> 0],
     initial_guess |-> 0, tolerance |-> 0, max_iterations |-> 0,
     i |-> 0, xn |-> 0, iterations |-> << >>, warned |-> << >>,
     ret |-> NoReturn]

\* x, y, z, t = sp.symbols('x y z t'); n, k, m = sp.symbols('n k m',
\* integer=True); a, b, c, h = sp.symbols('a b c h', real=True)
ModuleSymbols ==
    [s \in {"x", "y", "z", "t", "n", "k", "m", "a", "b", "c", "h"} |->
       IF s \in {"n", "k", "m"} THEN "integer"
       ELSE IF s \in {"a", "b", "c", "h"} THEN "real" ELSE "symbol"]

\* the locals of newtons_method on floats before a call
FloatNewtonIdle == [state |-> "idle"]

\* the locals of create_lecture_folder before a call
ScaffoldIdle == [pc |-> "idle"]

Init ==
    /\ state = "idle"
    /\ func = [a |-> 0, b |-> 0, c |-> 0]
    /\ initial_guess = 0
    /\ tolerance = 0
    /\ max_iterations = 0
    /\ i = 0
    /\ xn = 0
    /\ iterations = << >>
    /\ warned = << >>
    /\ ret = NoReturn
    /\ cc_in = NoCall
    /\ cc_ret = NoCall
    /\ cc_calls = << >>
    /\ sr_in = NoCall
    /\ sr_ret = NoCall
    /\ sr_calls = << >>
    /\ rm_in = NoCall
    /\ rm_ret = NoCall
    /\ rm_calls = << >>
    /\ lh_state = "idle"
    /\ lh_max = 0
    /\ lh_i = 0
    /\ lh_num = 0
    /\ lh_den = 0
    /\ lh_steps = << >>
    /\ lh_ret = NoCall
    /\ ln_in = NoCall
    /\ ln_ret = NoCall
    /\ cl_in = NoCall
    /\ cl_ret = NoCall
    /\ ut_in = NoCall
    /\ ut_ret = NoCall
    /\ th = [t \in Threads |-> ThreadIdle]
    /\ symbols = ModuleSymbols
    /\ pn = FloatNewtonIdle
    /\ ig_in = NoCall
    /\ ig_ret = NoCall
    /\ sc = ScaffoldIdle
    /\ disk = [folders |-> {}, files |-> {}]

\* --------------------------------------------------------- newtons_method
\* the threshold of `if abs(dfxn) < 1e-15`, in quanta
DerivEps == 2

WarnDerivative == "Derivative near zero, Newton's method may fail"
WarnMaxIterations == "Maximum iterations reached"

\* range(max_iterations + 1): one pass too many
InRangeInclusive(idx, maxit) == idx <= maxit

\* for i in range(max_iterations): the loop body runs for index idx
InRange(idx, maxit) == idx < maxit

\* <= in place of <
ConvergedOrEqual(fxn, tol) == Abs(fxn) <= tol

\* if abs(fxn) < tolerance
Converged(fxn, tol) == Abs(fxn) < tol

\* the test against exactly zero in place of the threshold
DegenerateOnlyZero(dfxn) == dfxn = 0

\* if abs(dfxn) < 1e-15
Degenerate(dfxn) == Abs(dfxn) < DerivEps

\* the update left out
NewtonUpdateKeeps(v, fxn, dfxn) == v

\* the sign of the step flipped
NewtonUpdatePlus(v, fxn, dfxn) == v + RoundDiv(fxn, dfxn)

\* xn = xn - fxn / dfxn
NewtonUpdate(v, fxn, dfxn) == v - RoundDiv(fxn, dfxn)

\* f'(x) stored under 'f(x)' as well
IterationRecordSwapped(idx, v, fxn, dfxn) ==
    [iteration |-> idx, x |-> v, fx |-> dfxn, dfx |-> dfxn]

\* the records numbered from one
IterationRecordFromOne(idx, v, fxn, dfxn) ==
    [iteration |-> idx + 1, x |-> v, fx |-> fxn, dfx |-> dfxn]

\* the record appended in iteration idx
IterationRecord(idx, v, fxn, dfxn) ==
    [iteration |-> idx, x |-> v, fx |-> fxn, dfx |-> dfxn]

\* the two tests of the loop body taken in the other order
IterationOutcomeDegenerateFirst(fxn, dfxn, tol) ==
    IF Degenerate(dfxn) THEN "degenerate"
    ELSE IF Converged(fxn, tol) THEN "converged"
    ELSE "update"

\* What the loop body does after the record is appended: the convergence
\* test, then the degeneracy test, then the update.
IterationOutcome(fxn, dfxn, tol) ==
    IF Converged(fxn, tol) THEN "converged"
    ELSE IF Degenerate(dfxn) THEN "degenerate"
    ELSE "update"

\* The call: arguments bound, iterations = [], xn = float(initial_guess).
NewtonCall(fn, guess, tol, maxit) ==
    /\ state = "idle"
    /\ state' = "iterating"
    /\ func' = fn
    /\ initial_guess' = guess
    /\ tolerance' = tol
    /\ max_iterations' = maxit
    /\ i' = 0
    /\ xn' = guess
    /\ iterations' = << >>
    /\ warned' = << >>
    /\ ret' = NoReturn
    /\ UNCHANGED << ccVars, srVars, rmVars, lhVars, lnVars, clVars,
                    utVars, thVars, pnVars, igVars, scVars >>

\* One pass through the loop body.
NewtonIterate ==
    /\ state = "iterating"
    /\ InRange(i, max_iterations)
    /\ LET fxn  == F(func, xn)
           dfxn == DF(func, xn)
           recs == Append(iterations, IterationRecord(i, xn, fxn, dfxn))
           outcome == IterationOutcome(fxn, dfxn, tolerance)
       IN  /\ iterations' = recs
           /\ IF outcome = "converged"
              THEN /\ state' = "converged"
                   /\ ret' = [root |-> Some(xn), iterations |-> recs]
                   /\ UNCHANGED << i, xn, warned >>
              ELSE IF outcome = "degenerate"
              THEN /\ state' = "degenerate"
                   /\ warned' = Append(warned, WarnDerivative)
                   /\ ret' = [root |-> None, iterations |-> recs]
                   /\ UNCHANGED << i, xn >>
              ELSE /\ xn' = NewtonUpdate(xn, fxn, dfxn)
                   /\ i' = i + 1
                   /\ UNCHANGED << state, warned, ret >>
    /\ UNCHANGED << func, initial_guess, tolerance, max_iterations >>
    /\ UNCHANGED << ccVars, srVars, rmVars, lhVars, lnVars, clVars,
                    utVars, thVars, pnVars, igVars, scVars >>

\* The loop ran out: warn and return the current xn.
NewtonExhausted ==
    /\ state = "iterating"
    /\ ~InRange(i, max_iterations)
    /\ state' = "exhausted"
    /\ warned' = Append(warned, WarnMaxIterations)
    /\ ret' = [root |-> Some(xn), iterations |-> iterations]
    /\ UNCHANGED << func, initial_guess, tolerance, max_iterations, i, xn,
                    iterations >>
    /\ UNCHANGED << ccVars, srVars, rmVars, lhVars, lnVars, clVars,
                    utVars, thVars, pnVars, igVars, scVars >>

\* The caller has the returned value; the call's locals are gone.
NewtonReturn ==
    /\ state \in Terminal
    /\ state' = "idle"
    /\ func' = [a |-> 0, b |-> 0, c |-> 0]
    /\ initial_guess' = 0
    /\ tolerance' = 0
    /\ max_iterations' = 0
    /\ i' = 0
    /\ xn' = 0
    /\ iterations' = << >>
    /\ warned' = << >>
    /\ ret' = NoReturn
    /\ UNCHANGED << ccVars, srVars, rmVars, lhVars, lnVars, clVars,
                    utVars, thVars, pnVars, igVars, scVars >>

NextNewton ==
    \/ \E fn \in Funcs, guess \in -GuessMax..GuessMax, tol \in 0..TolMax,
          maxit \in 0..MaxIterBound : NewtonCall(fn, guess, tol, maxit)
    \/ NewtonIterate
    \/ NewtonExhausted
    \/ NewtonReturn

SpecNewton == Init /\ [][NextNewton]_vars

\* ------------------------------------------------------- check_continuity
\* What the symbolic engine can answer: a finite number, one of its sentinels
\* nan, zoo (complex infinity), oo, -oo, or (Raise) an exception.
Fin(v) == [kind |-> "finite", n |-> v]
NaN == [kind |-> "nan", n |-> 0]
Zoo == [kind |-> "zoo", n |-> 0]
Oo == [kind |-> "oo", n |-> 0]
NegOo == [kind |-> "-oo", n |-> 0]
Raise == [kind |-> "raise", n |-> 0]

EngineValues == {Fin(v) : v \in 0..FinMax} \cup {NaN, Zoo, Oo, NegOo}
EngineAnswers == EngineValues \cup {Raise}

\* the exceptions the engine raises from subs, limit or simplify
EngineExceptions == {"ValueError", "NotImplementedError"}

\* The arguments of a call with the engine's answers for them: func is text
\* (and then parses or not) or symbolic; f_a is the engine's func.subs(var,
\* point), lim_val its sp.limit(func, var, point), simplify_raises whether its
\* simplify raises, exc the exception it raises where it raises.
ContinuityInputs ==
    { inp \in [text : BOOLEAN, parses : BOOLEAN, f_a : EngineAnswers,
               lim_val : EngineAnswers, simplify_raises : BOOLEAN,
               exc : EngineExceptions, point : 0..PointMax] :
        ~inp.text => inp.parses }

\* lim_val - f_a in the engine's arithmetic on numbers and sentinels
EngineSub(l, r) ==
    IF l.kind = "nan" \/ r.kind = "nan" THEN NaN
    ELSE IF l.kind = "zoo" \/ r.kind = "zoo"
         THEN (IF l.kind = "finite" \/ r.kind = "finite" THEN Zoo ELSE NaN)
    ELSE IF l.kind = "finite" /\ r.kind = "finite" THEN Fin(l.n - r.n)
    ELSE IF r.kind = "finite" THEN l
    ELSE IF l.kind = "finite" THEN (IF r.kind = "oo" THEN NegOo ELSE Oo)
    ELSE IF l.kind = r.kind THEN NaN
    ELSE l

\* any finite difference taken for zero
EqualsZeroAnyFinite(v) == v.kind = "finite"

\* sp.simplify(...) == 0
EqualsZero(v) == v.kind = "finite" /\ v.n = 0

\* -sp.oo left out of the list
FaMissingNoNegOo(v) == v.kind \in {"nan", "zoo", "oo"}

\* f_a in [sp.nan, sp.zoo, sp.oo, -sp.oo]
FaMissing(v) == v.kind \in {"nan", "zoo", "oo", "-oo"}

\* lim_val in [sp.nan, sp.zoo]
LimitMissing(v) == v.kind \in {"nan", "zoo"}

\* except ValueError in place of except Exception
CaughtValueErrorOnly(exc) == exc = "ValueError"

\* except Exception: every exception of the engine is an Exception
Caught(exc) == exc \in {"ValueError", "NotImplementedError", "SympifyError"}

\* a reason string: an f-string template and the values formatted into it
Reason(template, args) == [template |-> template, args |-> args]

Returned(ok, reason, calls) ==
    [ret |-> [kind |-> "returned", ok |-> ok, reason |-> reason],
     calls |-> calls]

\* the call ends by raising exc(msg) to its caller
Raised(exc, msg, calls) ==
    [ret |-> [kind |-> "raised", exc |-> exc, msg |-> msg], calls |-> calls]

\* an exception exc raised inside the try block after the calls made
Except(exc, calls) ==
    IF Caught(exc)
    THEN Returned(FALSE, Reason("Error checking continuity: {e}", << exc >>),
                  calls)
    ELSE Raised(exc, "", calls)

\* the try block of check_continuity, after the engine calls made so far
ContinuityTry(inp, calls) ==
    LET c1 == Append(calls, "subs")
        c2 == Append(c1, "limit")
        c3 == Append(c2, "simplify")
    IN  IF inp.f_a = Raise THEN Except(inp.exc, c1)
        ELSE IF FaMissing(inp.f_a)
        THEN Returned(FALSE,
                      Reason("f({point}) does not exist", << inp.point >>), c1)
        ELSE IF inp.lim_val = Raise THEN Except(inp.exc, c2)
        ELSE IF LimitMissing(inp.lim_val)
        THEN Returned(FALSE,
                      Reason("limit as x->{point} does not exist",
                             << inp.point >>), c2)
        ELSE IF inp.simplify_raises THEN Except(inp.exc, c3)
        ELSE IF EqualsZero(EngineSub(inp.lim_val, inp.f_a))
        THEN Returned(TRUE, Reason("Function is continuous", << >>), c3)
        ELSE Returned(FALSE,
                      Reason("limit = {lim_val} != f({point}) = {f_a}",
                             << inp.lim_val, inp.point, inp.f_a >>), c3)

\* check_continuity(func, var, point): the parse of a text func, then the try
\* block
CheckContinuityResult(inp) ==
    IF inp.text
    THEN IF inp.parses
         THEN ContinuityTry(inp, << "sympify" >>)
         ELSE Raised("SympifyError", "", << "sympify" >>)
    ELSE ContinuityTry(inp, << >>)

CheckContinuity(inp) ==
    /\ cc_ret = NoCall
    /\ cc_in' = inp
    /\ LET res == CheckContinuityResult(inp)
       IN  /\ cc_ret' = res.ret
           /\ cc_calls' = res.calls
    /\ UNCHANGED << nmVars, srVars, rmVars, lhVars, lnVars, clVars,
                    utVars, thVars, pnVars, igVars, scVars >>

\* The caller has the result; nothing of the call is kept.
ContinuityReturn ==
    /\ cc_ret # NoCall
    /\ cc_in' = NoCall
    /\ cc_ret' = NoCall
    /\ cc_calls' = << >>
    /\ UNCHANGED << nmVars, srVars, rmVars, lhVars, lnVars, clVars,
                    utVars, thVars, pnVars, igVars, scVars >>

NextContinuity ==
    \/ \E inp \in ContinuityInputs : CheckContinuity(inp)
    \/ ContinuityReturn

SpecContinuity == Init /\ [][NextContinuity]_vars

\* ---------------------------------------------------------- simpsons_rule
\* Quadrature is computed in exact rational arithmetic: a rational is a
\* fraction in lowest terms with a positive denominator.
RECURSIVE Gcd(_, _)
Gcd(p, q) == IF q = 0 THEN p ELSE Gcd(q, p % q)

Rat(p, q) ==
    LET g  == Gcd(Abs(p), Abs(q))
        sg == IF q < 0 THEN -1 ELSE 1
    IN  [num |-> (sg * p) \div g, den |-> (sg * q) \div g]

RInt(v) == [num |-> v, den |-> 1]
RAdd(u, v) == Rat(u.num * v.den + v.num * u.den, u.den * v.den)
RMul(u, v) == Rat(u.num * v.num, u.den * v.den)

\* f(x) for a lambdified polynomial at a rational x
FRat(fn, u) ==
    RAdd(RMul(RInt(fn.a), RMul(u, u)), RAdd(RMul(RInt(fn.b), u), RInt(fn.c)))

\* np.linspace(lower, upper, num)[k], k = 0..num-1, for num >= 2
Linspace(lower, upper, num, k) ==
    RAdd(RInt(lower), Rat(k * (upper - lower), num - 1))

\* the 0-based indices of the Python slice [start:-1:2] of a list of length len
SliceIndices(start, len) ==
    { k \in 0..(len - 1) : k >= start /\ k < len - 1 /\ (k - start) % 2 = 0 }

\* np.sum of the values y[k], k in idx
RECURSIVE RSum(_, _)
RSum(y, idx) ==
    IF idx = {} THEN RInt(0)
    ELSE LET k == CHOOSE j \in idx : TRUE
         IN  RAdd(y[k], RSum(y, idx \ {k}))

\* sp.lambdify of an expression free of var: the generated function returns
\* the constant itself, a scalar, whatever array it is given
LambdifiedScalar(fn) == fn.a = 0 /\ fn.b = 0

\* if n % 2 != 0
OddN(n) == n % 2 # 0

\* the integrands: polynomials a*x^2 + b*x + c
SimpsonFuncs ==
    [a : 0..1, b : -SimpCoefMax..SimpCoefMax, c : -SimpCoefMax..SimpCoefMax]

SimpsonInputs ==
    { inp \in [text : BOOLEAN, parses : BOOLEAN, func : SimpsonFuncs,
               lower : 0..BoundMax, upper : 0..BoundMax,
               n : -SimpNMax..SimpNMax] :
        ~inp.text => inp.parses }

\* simpsons_rule from `f = sp.lambdify(...)` on, after the calls made so far
SimpsonSum(inp, calls) ==
    LET c1 == Append(calls, "lambdify")
        c2 == Append(c1, "linspace")
        c3 == Append(c2, "f")
    IN  IF inp.n = 0
        THEN Raised("ZeroDivisionError", "division by zero", c1)
        ELSE IF inp.n + 1 < 0
        THEN Raised("ValueError", "Number of samples must be non-negative", c2)
        ELSE IF LambdifiedScalar(inp.func)
        THEN Raised("TypeError", "'int' object is not subscriptable", c3)
        ELSE
          LET h == Rat(inp.upper - inp.lower, inp.n)
              y_vals == [k \in 0..inp.n |->
                           FRat(inp.func,
                                Linspace(inp.lower, inp.upper, inp.n + 1, k))]
              ends == RAdd(y_vals[0], y_vals[inp.n])
              odds == RMul(RInt(4),
                           RSum(y_vals, SliceIndices(1, inp.n + 1)))
              evens == RMul(RInt(2),
                            RSum(y_vals, SliceIndices(2, inp.n + 1)))
              result == RMul(RAdd(RAdd(ends, odds), evens),
                             RMul(h, Rat(1, 3)))
          IN  [ret |-> [kind |-> "returned", value |-> result], calls |-> c3]

\* simpsons_rule from the parse of a text func on
SimpsonParse(inp) ==
    IF inp.text
    THEN IF inp.parses
         THEN SimpsonSum(inp, << "sympify" >>)
         ELSE Raised("SympifyError", "", << "sympify" >>)
    ELSE SimpsonSum(inp, << >>)

NotEvenMessage == "n must be even for Simpson's rule"

\* the parse moved before the parity check
SimpsonsRuleParseFirst(inp) ==
    IF inp.text /\ ~inp.parses
    THEN Raised("SympifyError", "", << "sympify" >>)
    ELSE IF OddN(inp.n)
    THEN Raised("ValueError", NotEvenMessage,
                IF inp.text THEN << "sympify" >> ELSE << >>)
    ELSE SimpsonParse(inp)

\* simpsons_rule(func, lower, upper, n): the parity check comes first
SimpsonsRuleResult(inp) ==
    IF OddN(inp.n)
    THEN Raised("ValueError", NotEvenMessage, << >>)
    ELSE SimpsonParse(inp)

SimpsonsRule(inp) ==
    /\ sr_ret = NoCall
    /\ sr_in' = inp
    /\ LET res == SimpsonsRuleResult(inp)
       IN  /\ sr_ret' = res.ret
           /\ sr_calls' = res.calls
    /\ UNCHANGED << nmVars, ccVars, rmVars, lhVars, lnVars, clVars,
                    utVars, thVars, pnVars, igVars, scVars >>

\* The caller has the result; nothing of the call is kept.
SimpsonReturn ==
    /\ sr_ret # NoCall
    /\ sr_in' = NoCall
    /\ sr_ret' = NoCall
    /\ sr_calls' = << >>
    /\ UNCHANGED << nmVars, ccVars, rmVars, lhVars, lnVars, clVars,
                    utVars, thVars, pnVars, igVars, scVars >>

NextSimpson ==
    \/ \E inp \in SimpsonInputs : SimpsonsRule(inp)
    \/ SimpsonReturn

SpecSimpson == Init /\ [][NextSimpson]_vars

\* ------------------------------------------------------------ riemann_sum
\* the integrands: polynomials a*x^2 + b*x + c
RiemannFuncs == [a : 0..1, b : 0..RiemannCoefMax, c : 0..RiemannCoefMax]

RiemannMethods == {"left", "right", "midpoint", "trapezoid"}

\* The arguments of a call.  np_bounds: lower and upper are numpy scalars
\* (np.float64) and not Python numbers; "other" is a method that is none of
\* the four.
RiemannInputs ==
    { inp \in [text : BOOLEAN, parses : BOOLEAN, func : RiemannFuncs,
               lower : 0..BoundMax, upper : 0..BoundMax, n : 0..RiemannNMax,
               method : RiemannMethods \cup {"other"}, np_bounds : BOOLEAN] :
        ~inp.text => inp.parses }

\* the floats that are no number: inf, -inf and nan
FloatInf == [num |-> 1, den |-> 0]
FloatNegInf == [num |-> -1, den |-> 0]
FloatNaN == [num |-> 0, den |-> 0]

\* numpy's d / 0: inf, -inf or nan, with a RuntimeWarning and no exception
NumpyDivZero(d) ==
    IF d > 0 THEN FloatInf ELSE IF d < 0 THEN FloatNegInf ELSE FloatNaN

\* c * dx for a float dx that is no number
FloatScale(c, dx) ==
    IF dx = FloatNaN \/ c = 0 THEN FloatNaN
    ELSE IF c > 0 THEN dx
    ELSE IF dx = FloatInf THEN FloatNegInf ELSE FloatInf

RSub(u, v) == RAdd(u, RMul(RInt(-1), v))

\* np.linspace(start, stop, num)[k], k = 0..num-1, for rational endpoints
LinspaceR(start, stop, num, k) ==
    IF num = 1 THEN start
    ELSE RAdd(start, RMul(Rat(k, num - 1), RSub(stop, start)))

\* np.sum(f(x_vals) * dx) for the n samples linspace(start, stop, n)
RectangleSum(fn, start, stop, n, dx) ==
    IF LambdifiedScalar(fn)
    THEN RMul(RInt(fn.c), dx)
    ELSE RSum([k \in 0..(n - 1) |->
                 RMul(FRat(fn, LinspaceR(start, stop, n, k)), dx)],
              0..(n - 1))

\* dx * (np.sum(y_vals) - (y_vals[0] + y_vals[-1]) / 2) over n + 1 samples
TrapezoidSum(fn, lower, upper, n, dx) ==
    LET y_vals == [k \in 0..n |->
                     FRat(fn, LinspaceR(RInt(lower), RInt(upper), n + 1, k))]
    IN  RMul(dx, RSub(RSum(y_vals, 0..n),
                      RMul(Rat(1, 2), RAdd(y_vals[0], y_vals[n]))))

RiemannValue(v, calls) ==
    [ret |-> [kind |-> "returned", value |-> v], calls |-> calls]

\* riemann_sum with n = 0 and numpy bounds: dx is inf, -inf or nan
RiemannZero(inp, calls) ==
    LET dx == NumpyDivZero(inp.upper - inp.lower)
        c2 == Append(calls, "linspace")
        c3 == Append(c2, "f")
        c4 == Append(c3, "sum")
    IN  IF inp.method = "other"
        THEN [ret |-> [kind |-> "returned_none"], calls |-> calls]
        ELSE IF inp.method = "trapezoid"
        THEN IF LambdifiedScalar(inp.func)
             THEN Raised("TypeError", "'int' object is not subscriptable", c3)
             ELSE RiemannValue(FloatNaN, c4)
        ELSE IF LambdifiedScalar(inp.func)
        THEN RiemannValue(FloatScale(inp.func.c, dx), c4)
        ELSE RiemannValue(RInt(0), c4)

\* an else branch that rejects the method
UnknownMethodRaises(calls) == Raised("ValueError", "unknown method", calls)

\* The if/elif chain has no else: for a method that is none of the four the
\* function body ends and the call returns None.
UnknownMethod(calls) == [ret |-> [kind |-> "returned_none"], calls |-> calls]

\* riemann_sum from `f = sp.lambdify(...)` on, after the calls made so far
RiemannDispatch(inp, calls) ==
    LET c1 == Append(calls, "lambdify")
        c2 == Append(c1, "linspace")
        c3 == Append(c2, "f")
        c4 == Append(c3, "sum")
        lo == RInt(inp.lower)
        up == RInt(inp.upper)
        dx == Rat(inp.upper - inp.lower, inp.n)
        half == RMul(Rat(1, 2), dx)
    IN  IF inp.n = 0
        THEN IF inp.np_bounds
             THEN RiemannZero(inp, c1)
             ELSE Raised("ZeroDivisionError", "division by zero", c1)
        ELSE IF inp.method = "left"
        THEN RiemannValue(
               RectangleSum(inp.func, lo, RSub(up, dx), inp.n, dx), c4)
        ELSE IF inp.method = "right"
        THEN RiemannValue(
               RectangleSum(inp.func, RAdd(lo, dx), up, inp.n, dx), c4)
        ELSE IF inp.method = "midpoint"
        THEN RiemannValue(
               RectangleSum(inp.func, RAdd(lo, half), RSub(up, half),
                            inp.n, dx), c4)
        ELSE IF inp.method = "trapezoid"
        THEN IF LambdifiedScalar(inp.func)
             THEN Raised("TypeError", "'int' object is not subscriptable", c3)
             ELSE RiemannValue(
                    TrapezoidSum(inp.func, inp.lower, inp.upper, inp.n, dx),
                    c4)
        ELSE UnknownMethod(c1)

\* riemann_sum(func, lower, upper, n, method)
RiemannSumResult(inp) ==
    IF inp.text
    THEN IF inp.parses
         THEN RiemannDispatch(inp, << "sympify" >>)
         ELSE Raised("SympifyError", "", << "sympify" >>)
    ELSE RiemannDispatch(inp, << >>)

RiemannSum(inp) ==
    /\ rm_ret = NoCall
    /\ rm_in' = inp
    /\ LET res == RiemannSumResult(inp)
       IN  /\ rm_ret' = res.ret
           /\ rm_calls' = res.calls
    /\ UNCHANGED << nmVars, ccVars, srVars, lhVars, lnVars, clVars,
                    utVars, thVars, pnVars, igVars, scVars >>

\* The caller has the result; nothing of the call is kept.
RiemannReturn ==
    /\ rm_ret # NoCall
    /\ rm_in' = NoCall
    /\ rm_ret' = NoCall
    /\ rm_calls' = << >>
    /\ UNCHANGED << nmVars, ccVars, srVars, lhVars, lnVars, clVars,
                    utVars, thVars, pnVars, igVars, scVars >>

NextRiemann ==
    \/ \E inp \in RiemannInputs : RiemannSum(inp)
    \/ RiemannReturn

SpecRiemann == Init /\ [][NextRiemann]_vars

\* ---------------------------------------------------------- lhopital_rule
\* An expression is known by its derivative order: 0 is the argument, k its
\* k-th derivative.  The engine's limits of it are inputs of each loop pass.
LhLimits == {Fin(v) : v \in -FinMax..FinMax} \cup {Oo, NegOo}

\* the engine's answers to the limit of the quotient after the loop
LhRatioLimits == LhLimits \cup {NaN}

\* sp.diff(num, var)
DifferentiateNot(order) == order
Differentiate(order) == order + 1

\* (num_val, den_val) in [(0, 0), (sp.oo, sp.oo), (-sp.oo, -sp.oo)]
IndeterminateZeroOnly(nv, dv) == nv = Fin(0) /\ dv = Fin(0)
Indeterminate(nv, dv) ==
    \/ nv = Fin(0) /\ dv = Fin(0)
    \/ nv = Oo /\ dv = Oo
    \/ nv = NegOo /\ dv = NegOo

\* the dict appended to steps in pass k
LhopitalStepFromOne(k, num, den, nv, dv) ==
    [iteration |-> k + 1, numerator |-> num, denominator |-> den,
     num_limit |-> nv, den_limit |-> dv]
LhopitalStep(k, num, den, nv, dv) ==
    [iteration |-> k, numerator |-> num, denominator |-> den,
     num_limit |-> nv, den_limit |-> dv]

\* the engine's num_val / den_val for den_val # 0
EngineDiv(nv, dv) ==
    IF nv.kind = "finite" /\ dv.kind = "finite"
    THEN [kind |-> "rational", q |-> Rat(nv.n, dv.n)]
    ELSE IF nv.kind = "finite"
    THEN [kind |-> "rational", q |-> RInt(0)]
    ELSE IF dv.kind = "finite"
    THEN IF (nv = Oo) = (dv.n > 0)
         THEN [kind |-> "oo"] ELSE [kind |-> "-oo"]
    ELSE [kind |-> "nan"]

\* sp.limit(num / den, var, point): the engine's answer ans to this query
LimitOfRatio(num, den, ans) ==
    [kind |-> "limit", numerator |-> num, denominator |-> den,
     limit |-> ans]

\* steps = []; num, den = numerator, denominator
LhopitalCall(maxit) ==
    /\ lh_state = "idle"
    /\ lh_state' = "looping"
    /\ lh_max' = maxit
    /\ lh_i' = 0
    /\ lh_num' = 0
    /\ lh_den' = 0
    /\ lh_steps' = << >>
    /\ lh_ret' = NoCall
    /\ UNCHANGED << nmVars, ccVars, srVars, rmVars, lnVars, clVars,
                    utVars, thVars, pnVars, igVars, scVars >>

\* one pass of `for i in range(max_iterations)`, the engine answering nv
\* and dv for the limits of num and den
LhopitalIterate(nv, dv) ==
    /\ lh_state = "looping"
    /\ lh_i < lh_max
    /\ LET steps == Append(lh_steps,
                           LhopitalStep(lh_i, lh_num, lh_den, nv, dv))
       IN  /\ lh_steps' = steps
           /\ IF ~Indeterminate(nv, dv)
              THEN /\ lh_state' = "resolved"
                   /\ lh_ret' = [kind |-> "returned",
                                 value |-> IF dv # Fin(0)
                                           THEN EngineDiv(nv, dv)
                                           ELSE [kind |-> "oo"],
                                 steps |-> steps]
                   /\ UNCHANGED << lh_i, lh_num, lh_den >>
              ELSE /\ lh_num' = Differentiate(lh_num)
                   /\ lh_den' = Differentiate(lh_den)
                   /\ lh_i' = lh_i + 1
                   /\ UNCHANGED << lh_state, lh_ret >>
    /\ UNCHANGED lh_max
    /\ UNCHANGED << nmVars, ccVars, srVars, rmVars, lnVars, clVars,
                    utVars, thVars, pnVars, igVars, scVars >>

\* the loop is over: result = sp.limit(num / den, var, point)
LhopitalFinal(ans) ==
    /\ lh_state = "looping"
    /\ ~(lh_i < lh_max)
    /\ lh_state' = "exhausted"
    /\ lh_ret' = [kind |-> "returned",
                  value |-> LimitOfRatio(lh_num, lh_den, ans),
                  steps |-> lh_steps]
    /\ UNCHANGED << lh_max, lh_i, lh_num, lh_den, lh_steps >>
    /\ UNCHANGED << nmVars, ccVars, srVars, rmVars, lnVars, clVars,
                    utVars, thVars, pnVars, igVars, scVars >>

\* The caller has the result; nothing of the call is kept.
LhopitalReturn ==
    /\ lh_state \in {"resolved", "exhausted"}
    /\ lh_state' = "idle"
    /\ lh_max' = 0
    /\ lh_i' = 0
    /\ lh_num' = 0
    /\ lh_den' = 0
    /\ lh_steps' = << >>
    /\ lh_ret' = NoCall
    /\ UNCHANGED << nmVars, ccVars, srVars, rmVars, lnVars, clVars,
                    utVars, thVars, pnVars, igVars, scVars >>

NextLhopital ==
    \/ \E maxit \in 0..LhMaxIter : LhopitalCall(maxit)
    \/ \E nv \in LhLimits, dv \in LhLimits : LhopitalIterate(nv, dv)
    \/ \E ans \in LhRatioLimits : LhopitalFinal(ans)
    \/ LhopitalReturn

SpecLhopital == Init /\ [][NextLhopital]_vars

\* ------------------------------------------------ tangent_line, normal_line
\* the points of tangency: the halves k/2
LinePoints == {Rat(k, 2) : k \in (-2 * PointMax)..(2 * PointMax)}

LineInputs ==
    { inp \in [text : BOOLEAN, parses : BOOLEAN, func : Funcs,
               point : LinePoints] :
        ~inp.text => inp.parses }

\* sp.diff(func, var).subs(var, point)
DFRat(fn, u) == RAdd(RMul(RInt(2 * fn.a), u), RInt(fn.b))

RDiv(u, v) == Rat(u.num * v.den, u.den * v.num)

\* the expression m * (var - point) + y_val, as the engine keeps it:
\* m * var + (y_val - m * point)
LineThroughOrigin(m, point, y_val) ==
    [kind |-> "line", slope |-> m, intercept |-> y_val]
LineThrough(m, point, y_val) ==
    [kind |-> "line", slope |-> m,
     intercept |-> RSub(y_val, RMul(m, point))]

\* line.subs(var, v)
LineAt(line, v) == RAdd(RMul(line.slope, v), line.intercept)

\* normal = None
NoLine == [kind |-> "None"]

\* normal_slope = -1 / slope
NormalSlopeInverse(slope) == RDiv(RInt(1), slope)
NormalSlope(slope) == RDiv(RInt(-1), slope)

LineRaised(exc, calls) ==
    [kind |-> "raised", exc |-> exc, calls |-> calls]

\* tangent_line(func, point)
TangentLineResult(inp) ==
    LET c0 == IF inp.text THEN << "sympify" >> ELSE << >>
        slope == DFRat(inp.func, inp.point)
        y_val == FRat(inp.func, inp.point)
    IN  IF inp.text /\ ~inp.parses
        THEN LineRaised("SympifyError", c0)
        ELSE [kind |-> "returned", op |-> "tangent_line",
              line |-> LineThrough(slope, inp.point, y_val),
              slope |-> slope, y_val |-> y_val,
              calls |-> c0 \o << "diff", "subs", "subs" >>]

\* normal_line(func, point)
NormalLineResult(inp) ==
    LET c0 == IF inp.text THEN << "sympify" >> ELSE << >>
        c1 == c0 \o << "diff", "subs", "subs" >>
        slope == DFRat(inp.func, inp.point)
        y_val == FRat(inp.func, inp.point)
    IN  IF inp.text /\ ~inp.parses
        THEN LineRaised("SympifyError", c0)
        ELSE IF slope # RInt(0)
        THEN [kind |-> "returned", op |-> "normal_line",
              line |-> LineThrough(NormalSlope(slope), inp.point, y_val),
              slope |-> slope, y_val |-> y_val,
              calls |-> Append(c1, "div")]
        ELSE [kind |-> "returned", op |-> "normal_line",
              line |-> NoLine,
              slope |-> slope, y_val |-> y_val,
              calls |-> c1]

TangentLine(inp) ==
    /\ ln_ret = NoCall
    /\ ln_in' = inp
    /\ ln_ret' = TangentLineResult(inp)
    /\ UNCHANGED << nmVars, ccVars, srVars, rmVars, lhVars, clVars,
                    utVars, thVars, pnVars, igVars, scVars >>

NormalLine(inp) ==
    /\ ln_ret = NoCall
    /\ ln_in' = inp
    /\ ln_ret' = NormalLineResult(inp)
    /\ UNCHANGED << nmVars, ccVars, srVars, rmVars, lhVars, clVars,
                    utVars, thVars, pnVars, igVars, scVars >>

\* The caller has the result; nothing of the call is kept.
LineReturn ==
    /\ ln_ret # NoCall
    /\ ln_in' = NoCall
    /\ ln_ret' = NoCall
    /\ UNCHANGED << nmVars, ccVars, srVars, rmVars, lhVars, clVars,
                    utVars, thVars, pnVars, igVars, scVars >>

NextLines ==
    \/ \E inp \in LineInputs : TangentLine(inp)
    \/ \E inp \in LineInputs : NormalLine(inp)
    \/ LineReturn

SpecLines == Init /\ [][NextLines]_vars

\* ------------------------------------------------------------ compute_limit
\* An expression at the point is known by its two one-sided limits, the
\* engine's answers.
LimitExprs == [right : EngineValues, left : EngineValues]

\* direction: None, '+' or '-'
Directions == {"None", "+", "-"}

LimitInputs ==
    { inp \in [text : BOOLEAN, parses : BOOLEAN, expr : LimitExprs,
               direction : Directions] :
        ~inp.text => inp.parses }

LimitValue(v) == [kind |-> "returned", value |-> v]

\* sp.limit(expr, var, point, dir) for dir '+', '-' and '+-'
EngineLimit(expr, dir) ==
    IF dir = "+" THEN LimitValue(expr.right)
    ELSE IF dir = "-" THEN LimitValue(expr.left)
    ELSE IF expr.left = expr.right THEN LimitValue(expr.right)
    ELSE [kind |-> "raised", exc |-> "ValueError"]

\* the dir of sp.limit(e, z, z0, dir="+") when the call passes none
EngineDefaultDir == "+"

\* compute_limit(expr, var, point, direction)
ComputeLimitResult(inp) ==
    IF inp.text /\ ~inp.parses
    THEN [kind |-> "raised", exc |-> "SympifyError"]
    ELSE IF inp.direction = "+" THEN EngineLimit(inp.expr, "+")
    ELSE IF inp.direction = "-" THEN EngineLimit(inp.expr, "-")
    ELSE EngineLimit(inp.expr, EngineDefaultDir)

ComputeLimit(inp) ==
    /\ cl_ret = NoCall
    /\ cl_in' = inp
    /\ cl_ret' = ComputeLimitResult(inp)
    /\ UNCHANGED << nmVars, ccVars, srVars, rmVars, lhVars, lnVars,
                    utVars, thVars, pnVars, igVars, scVars >>

\* The caller has the result; nothing of the call is kept.
LimitReturn ==
    /\ cl_ret # NoCall
    /\ cl_in' = NoCall
    /\ cl_ret' = NoCall
    /\ UNCHANGED << nmVars, ccVars, srVars, rmVars, lhVars, lnVars,
                    utVars, thVars, pnVars, igVars, scVars >>

NextLimit ==
    \/ \E inp \in LimitInputs : ComputeLimit(inp)
    \/ LimitReturn

SpecLimit == Init /\ [][NextLimit]_vars

\* ------------------------------- format_step_by_step, plot_function
\* An expr of a step: a str with '$' or '\', a plain str that sympify
\* parses, a plain str that sympify rejects, or a SymPy expression.
StepKinds == {"latex_text", "text", "bad_text", "expr"}

\* the steps argument of format_step_by_step
FormatInputs ==
    UNION { [1..len -> StepKinds] : len \in 0..StepsMax }

\* the exceptions that f(x_vals) raises
PlotExceptions == {"TypeError", "ValueError", "ZeroDivisionError"}

\* The arguments of plot_function.  range_ok: np.linspace accepts x_range;
\* eval: how f(x_vals) ends.
PlotInputs ==
    [sympy : BOOLEAN, range_ok : BOOLEAN, eval : {"ok"} \cup PlotExceptions,
     ax : BOOLEAN, title : BOOLEAN]

\* the part of md_str that one step adds, and the exception that the try
\* block of the step raised and caught
FormatStep(k, kind) ==
    IF kind = "latex_text"
    THEN [md |-> [step |-> k, body |-> "raw"], caught |-> << >>]
    ELSE IF kind = "text"
    THEN [md |-> [step |-> k, body |-> "latex"], caught |-> << >>]
    ELSE IF kind = "bad_text"
    THEN [md |-> [step |-> k, body |-> "raw"],
          caught |-> << "SympifyError" >>]
    ELSE [md |-> [step |-> k, body |-> "latex"], caught |-> << >>]

\* for i, (description, expr) in enumerate(steps, 1), from step k on
RECURSIVE FormatLoop(_, _, _, _)
FormatLoop(steps, k, md, caught) ==
    IF k > Len(steps) THEN [md |-> md, caught |-> caught]
    ELSE LET r == FormatStep(k, steps[k])
         IN  FormatLoop(steps, k + 1, Append(md, r.md), caught \o r.caught)

\* format_step_by_step(steps): md_str is displayed, nothing is returned
FormatStepByStepResult(steps) ==
    LET r == FormatLoop(steps, 1, << >>, << >>)
    IN  [kind |-> "returned", op |-> "format_step_by_step",
         out |-> r.md, raised_inside |-> r.caught, warned |-> << >>]

\* plot_function(func, var, x_range, ...)
PlotFunctionResult(inp) ==
    IF ~inp.range_ok
    THEN [kind |-> "raised", op |-> "plot_function", out |-> << >>,
          raised_inside |-> << "TypeError" >>, warned |-> << >>]
    ELSE IF inp.eval = "ok"
    THEN [kind |-> "returned", op |-> "plot_function",
          out |-> << "plot", "axhline", "axvline", "grid", "legend" >>,
          raised_inside |-> << >>, warned |-> << >>]
    ELSE [kind |-> "returned", op |-> "plot_function",
          out |-> << "axhline", "axvline", "grid", "legend" >>,
          raised_inside |-> << inp.eval >>,
          warned |-> << "Error plotting function" >>]

FormatStepByStep(steps) ==
    /\ ut_ret = NoCall
    /\ ut_in' = [op |-> "format_step_by_step", steps |-> steps]
    /\ ut_ret' = FormatStepByStepResult(steps)
    /\ UNCHANGED << nmVars, ccVars, srVars, rmVars, lhVars, lnVars, clVars,
                    thVars, pnVars, igVars, scVars >>

PlotFunction(inp) ==
    /\ ut_ret = NoCall
    /\ ut_in' = [op |-> "plot_function", args |-> inp]
    /\ ut_ret' = PlotFunctionResult(inp)
    /\ UNCHANGED << nmVars, ccVars, srVars, rmVars, lhVars, lnVars, clVars,
                    thVars, pnVars, igVars, scVars >>

\* The caller has the result; nothing of the call is kept.
UtilityReturn ==
    /\ ut_ret # NoCall
    /\ ut_in' = NoCall
    /\ ut_ret' = NoCall
    /\ UNCHANGED << nmVars, ccVars, srVars, rmVars, lhVars, lnVars, clVars,
                    thVars, pnVars, igVars, scVars >>

NextUtilities ==
    \/ \E steps \in FormatInputs : FormatStepByStep(steps)
    \/ \E inp \in PlotInputs : PlotFunction(inp)
    \/ UtilityReturn

SpecUtilities == Init /\ [][NextUtilities]_vars

\* --------------------------------------- concurrent newtons_method calls
\* the calls the threads make: 2x - 2, x^2 - 2 and x^2 from 0 or 1
ConcurrentCalls ==
    [func : {[a |-> 0, b |-> 2, c |-> -2], [a |-> 1, b |-> 0, c |-> -2],
             [a |-> 1, b |-> 0, c |-> 0]},
     initial_guess : {0, 1}, tolerance : {1}, max_iterations : {0, 2}]

\* A thread assigns its locals: the frame of its own call and no other.
StoreShared(frames, t, frame) ==
    [u \in DOMAIN frames |->
       IF u = t THEN frame
       ELSE IF frames[u].state = "iterating"
       THEN [frames[u] EXCEPT !.xn = frame.xn,
                              !.iterations = frame.iterations]
       ELSE frames[u]]
Store(frames, t, frame) == [frames EXCEPT ![t] = frame]

\* Thread t enters newtons_method: iterations = [], xn = float(initial_guess).
ThreadCall(t, call) ==
    /\ th[t].state = "idle"
    /\ th' = Store(th, t,
                   [state |-> "iterating", func |-> call.func,
                    initial_guess |-> call.initial_guess,
                    tolerance |-> call.tolerance,
                    max_iterations |-> call.max_iterations,
                    i |-> 0, xn |-> call.initial_guess,
                    iterations |-> << >>, warned |-> << >>,
                    ret |-> NoReturn])
    /\ UNCHANGED symbols
    /\ UNCHANGED << nmVars, ccVars, srVars, rmVars, lhVars, lnVars, clVars,
                    utVars, pnVars, igVars, scVars >>

\* Thread t makes one pass through the loop body.
ThreadIterate(t) ==
    /\ th[t].state = "iterating"
    /\ InRange(th[t].i, th[t].max_iterations)
    /\ LET me   == th[t]
           fxn  == F(me.func, me.xn)
           dfxn == DF(me.func, me.xn)
           recs == Append(me.iterations,
                          IterationRecord(me.i, me.xn, fxn, dfxn))
       IN  th' = Store(th, t,
                 IF Converged(fxn, me.tolerance)
                 THEN [me EXCEPT !.state = "converged",
                                 !.iterations = recs,
                                 !.ret = [root |-> Some(me.xn),
                                          iterations |-> recs]]
                 ELSE IF Degenerate(dfxn)
                 THEN [me EXCEPT !.state = "degenerate",
                                 !.iterations = recs,
                                 !.warned = Append(me.warned, WarnDerivative),
                                 !.ret = [root |-> None,
                                          iterations |-> recs]]
                 ELSE [me EXCEPT !.iterations = recs,
                                 !.xn = NewtonUpdate(me.xn, fxn, dfxn),
                                 !.i = me.i + 1])
    /\ UNCHANGED symbols
    /\ UNCHANGED << nmVars, ccVars, srVars, rmVars, lhVars, lnVars, clVars,
                    utVars, pnVars, igVars, scVars >>

\* The loop of thread t ran out.
ThreadExhausted(t) ==
    /\ th[t].state = "iterating"
    /\ ~InRange(th[t].i, th[t].max_iterations)
    /\ th' = Store(th, t,
                   [th[t] EXCEPT !.state = "exhausted",
                                 !.warned = Append(th[t].warned,
                                                   WarnMaxIterations),
                                 !.ret = [root |-> Some(th[t].xn),
                                          iterations |-> th[t].iterations]])
    /\ UNCHANGED symbols
    /\ UNCHANGED << nmVars, ccVars, srVars, rmVars, lhVars, lnVars, clVars,
                    utVars, pnVars, igVars, scVars >>

\* The caller in thread t has the returned value; the locals are gone.
ThreadReturn(t) ==
    /\ th[t].state \in Terminal
    /\ th' = Store(th, t, ThreadIdle)
    /\ UNCHANGED symbols
    /\ UNCHANGED << nmVars, ccVars, srVars, rmVars, lhVars, lnVars, clVars,
                    utVars, pnVars, igVars, scVars >>

NextConcurrent ==
    \E t \in Threads :
        \/ \E call \in ConcurrentCalls : ThreadCall(t, call)
        \/ ThreadIterate(t)
        \/ ThreadExhausted(t)
        \/ ThreadReturn(t)

SpecConcurrent == Init /\ [][NextConcurrent]_vars

\* ------------------------------------------- newtons_method on floats
\* A float is kept as a signed count of units of 10^-16 = LimbBase^-FracLimbs,
\* its magnitude a sequence of limbs of four decimal digits, lowest limb
\* first, without high zeros; every product and quotient is rounded to that
\* unit.
RECURSIVE DTrim(_)
DTrim(s) ==
    IF s = << >> THEN << >>
    ELSE IF s[Len(s)] = 0 THEN DTrim(SubSeq(s, 1, Len(s) - 1))
    ELSE s

RECURSIVE DOfNat(_)
DOfNat(v) ==
    IF v = 0 THEN << >>
    ELSE << v % LimbBase >> \o DOfNat(v \div LimbBase)

DRest(s) == IF s = << >> THEN << >> ELSE Tail(s)
DLow(s) == IF s = << >> THEN 0 ELSE Head(s)

RECURSIVE DAddCarry(_, _, _)
DAddCarry(u, v, carry) ==
    IF u = << >> /\ v = << >>
    THEN IF carry = 0 THEN << >> ELSE << carry >>
    ELSE LET d == DLow(u) + DLow(v) + carry
         IN  << d % LimbBase >>
               \o DAddCarry(DRest(u), DRest(v), d \div LimbBase)

DAdd(u, v) == DAddCarry(u, v, 0)

\* u - v - borrow for u >= v + borrow, high zeros kept
RECURSIVE DSubBorrow(_, _, _)
DSubBorrow(u, v, borrow) ==
    IF u = << >> THEN << >>
    ELSE LET d == DLow(u) - DLow(v) - borrow
         IN  IF d < 0
             THEN << d + LimbBase >> \o DSubBorrow(DRest(u), DRest(v), 1)
             ELSE << d >> \o DSubBorrow(DRest(u), DRest(v), 0)

DSub(u, v) == DTrim(DSubBorrow(u, v, 0))

\* u < v, compared from limb k down, for u and v of one length
RECURSIVE DLessFrom(_, _, _)
DLessFrom(u, v, k) ==
    IF k = 0 THEN FALSE
    ELSE IF u[k] # v[k] THEN u[k] < v[k]
    ELSE DLessFrom(u, v, k - 1)

DLess(u, v) ==
    IF Len(u) # Len(v) THEN Len(u) < Len(v) ELSE DLessFrom(u, v, Len(u))

\* u * d + carry for a limb d
RECURSIVE DMulLimb(_, _, _)
DMulLimb(u, d, carry) ==
    IF u = << >> THEN DOfNat(carry)
    ELSE LET p == Head(u) * d + carry
         IN  << p % LimbBase >> \o DMulLimb(Tail(u), d, p \div LimbBase)

RECURSIVE DMul(_, _)
DMul(u, v) ==
    IF u = << >> \/ v = << >> THEN << >>
    ELSE DTrim(DAdd(DMulLimb(u, Head(v), 0), << 0 >> \o DMul(u, Tail(v))))

\* decimal digit k of u, k = 1 the lowest
DecimalDigit(u, k) ==
    LET limb == u[((k - 1) \div 4) + 1]
        pos  == (k - 1) % 4
    IN  (limb \div (IF pos = 0 THEN 1 ELSE IF pos = 1 THEN 10
                    ELSE IF pos = 2 THEN 100 ELSE 1000)) % 10

\* One step of the long division of u by v, v # 0: decimal digit k of u is
\* brought down to the remainder and the next quotient digit is found.
DDivStep(u, v, k, acc) ==
    LET r == DTrim(DMulLimb(acc.rem, 10, DecimalDigit(u, k)))
        q == CHOOSE c \in 0..9 :
                /\ ~DLess(r, DTrim(DMulLimb(v, c, 0)))
                /\ DLess(r, DTrim(DMulLimb(v, c + 1, 0)))
    IN  [rem |-> DSub(r, DTrim(DMulLimb(v, q, 0))),
         quot |-> DTrim(DMulLimb(acc.quot, 10, q))]

\* u div v from decimal digit k of u down
RECURSIVE DDivFrom(_, _, _, _)
DDivFrom(u, v, k, acc) ==
    IF k = 0 THEN acc.quot
    ELSE CHOOSE res \in { DDivFrom(u, v, k - 1, next) :
                            next \in { DDivStep(u, v, k, acc) } } : TRUE

DDiv(u, v) == DDivFrom(u, v, 4 * Len(u), [rem |-> << >>, quot |-> << >>])

\* LimbBase^k * u and u div LimbBase^k
DShift(u, k) == IF u = << >> THEN << >> ELSE [j \in 1..k |-> 0] \o u
DDrop(u, k) == IF Len(u) <= k THEN << >> ELSE SubSeq(u, k + 1, Len(u))

\* 10^k as digits
RECURSIVE DPowTen(_)
DPowTen(k) == IF k = 0 THEN << 1 >> ELSE DTrim(DMulLimb(DPowTen(k - 1), 10, 0))

Fx(neg, mag) == [neg |-> neg /\ mag # << >>, mag |-> mag]

\* float(v) of an integer v
FxOfInt(v) == Fx(v < 0, DShift(DOfNat(Abs(v)), FracLimbs))

\* 10^-k
FxPowTen(k) == Fx(FALSE, DPowTen(4 * FracLimbs - k))

FxAdd(u, v) ==
    IF u.neg = v.neg THEN Fx(u.neg, DAdd(u.mag, v.mag))
    ELSE IF DLess(u.mag, v.mag) THEN Fx(v.neg, DSub(v.mag, u.mag))
    ELSE Fx(u.neg, DSub(u.mag, v.mag))

FxSub(u, v) == FxAdd(u, Fx(~v.neg, v.mag))

\* u * v, rounded to the nearest unit
FxMul(u, v) ==
    Fx(u.neg # v.neg,
       DDrop(DAdd(DMul(u.mag, v.mag),
                  DShift(<< LimbBase \div 2 >>, FracLimbs - 1)),
             FracLimbs))

\* k * u for an integer k
FxScale(k, u) == Fx((k < 0) # u.neg, DMul(DOfNat(Abs(k)), u.mag))

\* u / v, v # 0, rounded towards zero
FxDiv(u, v) == Fx(u.neg # v.neg, DDiv(DShift(u.mag, FracLimbs), v.mag))

FxAbsLess(u, v) == DLess(u.mag, v.mag)

\* f = sp.lambdify(var, func, 'numpy') at a float
FloatF(fn, v) ==
    FxAdd(FxAdd(FxScale(fn.a, FxMul(v, v)), FxScale(fn.b, v)), FxOfInt(fn.c))

\* df = sp.lambdify(var, sp.diff(func, var), 'numpy') at a float
FloatDFUnscaled(fn, v) == FxAdd(FxScale(fn.a, v), FxOfInt(fn.b))
FloatDF(fn, v) == FxAdd(FxScale(2 * fn.a, v), FxOfInt(fn.b))

\* 1e-15
FloatDerivEps == FxPowTen(15)

\* the calls: x^2 - c from a non-negative integer guess, tolerance 10^-k
FloatNewtonCalls ==
    [func : {[a |-> 1, b |-> 0, c |-> -k] : k \in 2..SquareMax},
     initial_guess : 0..FloatGuessMax,
     tol_digits : {0, 5, 10},
     max_iterations : {2, 100}]

\* The call: arguments bound, iterations = [], xn = float(initial_guess).
FloatNewtonCall(call) ==
    /\ pn.state = "idle"
    /\ pn' = [state |-> "iterating", func |-> call.func,
              initial_guess |-> call.initial_guess,
              tolerance |-> FxPowTen(call.tol_digits),
              max_iterations |-> call.max_iterations,
              i |-> 0, xn |-> FxOfInt(call.initial_guess),
              iterations |-> << >>, warned |-> << >>, ret |-> NoReturn]
    /\ UNCHANGED << nmVars, ccVars, srVars, rmVars, lhVars, lnVars, clVars,
                    utVars, thVars, igVars, scVars >>

\* One pass through the loop body.
FloatNewtonIterate ==
    /\ pn.state = "iterating"
    /\ pn.i < pn.max_iterations
    /\ LET fxn  == FloatF(pn.func, pn.xn)
           dfxn == FloatDF(pn.func, pn.xn)
           recs == Append(pn.iterations,
                          IterationRecord(pn.i, pn.xn, fxn, dfxn))
       IN  pn' = IF FxAbsLess(fxn, pn.tolerance)
                 THEN [pn EXCEPT !.state = "converged",
                                 !.iterations = recs,
                                 !.ret = [root |-> Some(pn.xn),
                                          iterations |-> recs]]
                 ELSE IF FxAbsLess(dfxn, FloatDerivEps)
                 THEN [pn EXCEPT !.state = "degenerate",
                                 !.iterations = recs,
                                 !.warned = Append(pn.warned, WarnDerivative),
                                 !.ret = [root |-> None,
                                          iterations |-> recs]]
                 ELSE [pn EXCEPT !.iterations = recs,
                                 !.xn = FxSub(pn.xn, FxDiv(fxn, dfxn)),
                                 !.i = pn.i + 1]
    /\ UNCHANGED << nmVars, ccVars, srVars, rmVars, lhVars, lnVars, clVars,
                    utVars, thVars, igVars, scVars >>

\* The loop ran out: warn and return the current xn.
FloatNewtonExhausted ==
    /\ pn.state = "iterating"
    /\ ~(pn.i < pn.max_iterations)
    /\ pn' = [pn EXCEPT !.state = "exhausted",
                        !.warned = Append(pn.warned, WarnMaxIterations),
                        !.ret = [root |-> Some(pn.xn),
                                 iterations |-> pn.iterations]]
    /\ UNCHANGED << nmVars, ccVars, srVars, rmVars, lhVars, lnVars, clVars,
                    utVars, thVars, igVars, scVars >>

\* The caller has the returned value; the call's locals are gone.
FloatNewtonReturn ==
    /\ pn.state \in Terminal
    /\ pn' = FloatNewtonIdle
    /\ UNCHANGED << nmVars, ccVars, srVars, rmVars, lhVars, lnVars, clVars,
                    utVars, thVars, igVars, scVars >>

NextFloatNewton ==
    \/ \E call \in FloatNewtonCalls : FloatNewtonCall(call)
    \/ FloatNewtonIterate
    \/ FloatNewtonExhausted
    \/ FloatNewtonReturn

SpecFloatNewton == Init /\ [][NextFloatNewton]_vars

\* ------------------------------------------- simpsons_rule, callable func
\* the call simpsons_rule(<x**2>, 0, 1, n=10)
ExampleCall ==
    [func |-> [a |-> 1, b |-> 0, c |-> 0], lower |-> 0, upper |-> 1, n |-> 10]

\* What sp.lambdify does with a func that is no expression but a Python
\* callable: its code printer either sympifies the argument, and the text
\* "<function <lambda> at 0x...>" does not parse, or prints that text into
\* the generated source, which does not compile.
LambdifyCallableErrors ==
    [sympifies |-> "SympifyError", prints_repr |-> "SyntaxError"]

\* The arguments of a call whose func is a sympy expression (callable FALSE)
\* or a Python callable computing the same polynomial (callable TRUE).
SimpsonExampleInputs ==
    { inp \in [text : {FALSE}, parses : {TRUE}, callable : BOOLEAN,
               printer : DOMAIN LambdifyCallableErrors,
               func : SimpsonFuncs,
               lower : 0..BoundMax, upper : 0..BoundMax,
               n : (-SimpNMax..SimpNMax) \cup {ExampleCall.n}] :
        ~inp.callable => inp.printer = "sympifies" }

\* simpsons_rule(func, lower, upper, n) for a func that may be a callable:
\* the parity check, no parse (func is no str), then sp.lambdify
SimpsonsRuleExampleResult(inp) ==
    IF inp.callable /\ ~OddN(inp.n)
    THEN Raised(LambdifyCallableErrors[inp.printer], "", << "lambdify" >>)
    ELSE SimpsonsRuleResult(inp)

SimpsonsRuleExample(inp) ==
    /\ sr_ret = NoCall
    /\ sr_in' = inp
    /\ LET res == SimpsonsRuleExampleResult(inp)
       IN  /\ sr_ret' = res.ret
           /\ sr_calls' = res.calls
    /\ UNCHANGED << nmVars, ccVars, rmVars, lhVars, lnVars, clVars,
                    utVars, thVars, pnVars, igVars, scVars >>

NextSimpsonExample ==
    \/ \E inp \in SimpsonExampleInputs : SimpsonsRuleExample(inp)
    \/ SimpsonReturn

SpecSimpsonExample == Init /\ [][NextSimpsonExample]_vars

\* ------------------------------------ the record lists of the two loops
\* newtons_method and lhopital_rule, one call at a time
NextRecords ==
    \/ lh_state = "idle" /\ NextNewton
    \/ state = "idle" /\ NextLhopital

SpecRecords == Init /\ [][NextRecords]_vars

\* --------------------------------------------------------------- integrate
\* the integrands: the polynomials b*x + c
IntegrateFuncs == [b : -IntCoefMax..IntCoefMax, c : -IntCoefMax..IntCoefMax]

\* a bound argument: Python's None, or a number (0 among them)
IntegrateBounds == {None} \cup {Some(v) : v \in 0..BoundMax}

\* The arguments of a call, var left at its default.
IntegrateInputs ==
    { inp \in [text : BOOLEAN, parses : BOOLEAN, expr : IntegrateFuncs,
               lower : IntegrateBounds, upper : IntegrateBounds] :
        ~inp.text => inp.parses }

\* sp.integrate(expr, var): b*x**2/2 + c*x, no constant of integration
Antiderivative(fn) ==
    [kind |-> "expression", a2 |-> Rat(fn.b, 2), a1 |-> RInt(fn.c)]

\* the antiderivative at the number u
AntiderivativeAt(fn, u) ==
    LET prim == Antiderivative(fn)
    IN  RAdd(RMul(prim.a2, RMul(RInt(u), RInt(u))), RMul(prim.a1, RInt(u)))

\* sp.integrate(expr, (var, lower, upper))
DefiniteValue(fn, lo, up) ==
    [kind |-> "number",
     value |-> RSub(AntiderivativeAt(fn, up), AntiderivativeAt(fn, lo))]

\* IntegralCalculator.indefinite_integral(expr, var)
IndefiniteIntegral(inp) ==
    IF inp.text /\ ~inp.parses
    THEN Raised("SympifyError", "", << "sympify" >>)
    ELSE [ret |-> [kind |-> "returned", value |-> Antiderivative(inp.expr)],
          calls |-> (IF inp.text THEN << "sympify" >> ELSE << >>)
                       \o << "integrate(expr, var)" >>]

\* IntegralCalculator.definite_integral(expr, var, lower, upper)
DefiniteIntegral(inp, lo, up) ==
    IF inp.text /\ ~inp.parses
    THEN Raised("SympifyError", "", << "sympify" >>)
    ELSE [ret |-> [kind |-> "returned",
                   value |-> DefiniteValue(inp.expr, lo, up)],
          calls |-> (IF inp.text THEN << "sympify" >> ELSE << >>)
                       \o << "integrate(expr, (var, lower, upper))" >>]

\* the test on the truth of the bounds, which takes 0 for a missing bound
BothBoundsTruthy(lower, upper) ==
    /\ lower # None /\ lower # Some(0)
    /\ upper # None /\ upper # Some(0)

\* lower is not None and upper is not None
BothBounds(lower, upper) == lower # None /\ upper # None

\* integrate(expr, var=x, lower=None, upper=None)
IntegrateResult(inp) ==
    IF BothBounds(inp.lower, inp.upper)
    THEN DefiniteIntegral(inp, inp.lower[1], inp.upper[1])
    ELSE IndefiniteIntegral(inp)

Integrate(inp) ==
    /\ ig_ret = NoCall
    /\ ig_in' = inp
    /\ ig_ret' = IntegrateResult(inp)
    /\ UNCHANGED << nmVars, ccVars, srVars, rmVars, lhVars, lnVars, clVars,
                    utVars, thVars, pnVars, scVars >>

\* The caller has the result; nothing of the call is kept.
IntegrateReturn ==
    /\ ig_ret # NoCall
    /\ ig_in' = NoCall
    /\ ig_ret' = NoCall
    /\ UNCHANGED << nmVars, ccVars, srVars, rmVars, lhVars, lnVars, clVars,
                    utVars, thVars, pnVars, scVars >>

NextIntegrate ==
    \/ \E inp \in IntegrateInputs : Integrate(inp)
    \/ IntegrateReturn

SpecIntegrate == Init /\ [][NextIntegrate]_vars

\* ---------------------------------------------------- create_lecture_folder
DigitChars == << "0", "1", "2", "3", "4", "5", "6", "7", "8", "9" >>

\* the decimal digits of a natural number, most significant first
RECURSIVE DecimalChars(_)
DecimalChars(v) ==
    IF v < 10 THEN << DigitChars[v + 1] >>
    ELSE Append(DecimalChars(v \div 10), DigitChars[(v % 10) + 1])

\* the format without the padding
FormatUnpadded(v) == DecimalChars(v)

\* f"{file_num:02d}": the digits, padded with a zero to two places
FormatTwoDigits(v) ==
    IF Len(DecimalChars(v)) < 2 THEN << "0" >> \o DecimalChars(v)
    ELSE DecimalChars(v)

\* section.replace(".", "-")
SectionSafe(section) ==
    [k \in 1..Len(section) |-> IF section[k] = "." THEN "-" ELSE section[k]]

\* the section "3.j" of the textbook
SectionName(j) == << "3", "." >> \o DecimalChars(j)

\* The lectures: lecture k + 1 has the k sections 3.1 .. 3.k.
Lectures ==
    { [num |-> k + 1, openstax |-> [j \in 1..k |-> SectionName(j)]] :
        k \in 0..SectionsMax }

\* the notebooks written after the sections, in the order of the code
TailStems ==
    << "Problem_Set_Activities", "Activity_Flashcards",
       "Activity_Interactive_Playground", "Activity_Exercise_Bank",
       "Log_AI_QA_Journal" >>

\* a file of a lecture folder: <prefix>_<stem><section>.ipynb
FileName(prefix, stem, section) ==
    [prefix |-> prefix, stem |-> stem, section |-> section]

\* the counter written twice
SameFileNum(v) == v

\* file_num += 1
NextFileNum(v) == v + 1

\* with open(lecture_folder / name, "w"): the file is created, or truncated
\* and written again when it is there
WriteFile(files, folder, name) == files \cup {[folder |-> folder, name |-> name]}

\* one more notebook written by the running call
ScaffoldWrite(name, pc, file_num, tail) ==
    /\ sc' = [sc EXCEPT !.pc = pc, !.file_num = file_num, !.tail = tail,
                        !.written = Append(sc.written, name)]
    /\ disk' = [disk EXCEPT !.files = WriteFile(disk.files, sc.lecture.num, name)]
    /\ UNCHANGED << nmVars, ccVars, srVars, rmVars, lhVars, lnVars, clVars,
                    utVars, thVars, pnVars, igVars >>

\* The call: lecture_folder.mkdir(parents=True, exist_ok=True).
CreateLectureFolder(lecture) ==
    /\ sc.pc = "idle"
    /\ sc' = [pc |-> "dashboard", lecture |-> lecture, file_num |-> 0,
              tail |-> 0, written |-> << >>,
              rerun |-> lecture.num \in disk.folders]
    /\ disk' = [disk EXCEPT !.folders = disk.folders \cup {lecture.num}]
    /\ UNCHANGED << nmVars, ccVars, srVars, rmVars, lhVars, lnVars, clVars,
                    utVars, thVars, pnVars, igVars >>

WriteDashboard ==
    /\ sc.pc = "dashboard"
    /\ ScaffoldWrite(FileName(<< "0", "1" >>, "Overview_Master_Dashboard", << >>),
                     "notes", sc.file_num, sc.tail)

\* the lecture notes, then file_num = 3
WriteLectureNotes ==
    /\ sc.pc = "notes"
    /\ ScaffoldWrite(FileName(<< "0", "2" >>, "Lecture_Notes_MIT", << >>),
                     "sections", 3, sc.tail)

\* one pass of `for section in openstax_sections`
WriteSection ==
    /\ sc.pc = "sections"
    /\ Len(sc.written) - 2 < Len(sc.lecture.openstax)
    /\ LET section == sc.lecture.openstax[Len(sc.written) - 1]
       IN  ScaffoldWrite(FileName(FormatTwoDigits(sc.file_num), "OpenStax_Ch",
                                  SectionSafe(section)),
                         "sections", NextFileNum(sc.file_num), sc.tail)

\* the loop over the sections is over
SectionsDone ==
    /\ sc.pc = "sections"
    /\ ~(Len(sc.written) - 2 < Len(sc.lecture.openstax))
    /\ sc' = [sc EXCEPT !.pc = "tail", !.tail = 1]
    /\ UNCHANGED disk
    /\ UNCHANGED << nmVars, ccVars, srVars, rmVars, lhVars, lnVars, clVars,
                    utVars, thVars, pnVars, igVars >>

\* one of the five notebooks after the sections; file_num += 1 follows each
\* but the last
WriteTail ==
    /\ sc.pc = "tail"
    /\ LET name == FileName(FormatTwoDigits(sc.file_num), TailStems[sc.tail],
                            << >>)
       IN  IF sc.tail < Len(TailStems)
           THEN ScaffoldWrite(name, "tail", NextFileNum(sc.file_num),
                              sc.tail + 1)
           ELSE ScaffoldWrite(name, "done", sc.file_num, sc.tail)

\* The call returns; its locals are gone, the files stay.
ScaffoldReturn ==
    /\ sc.pc = "done"
    /\ sc' = ScaffoldIdle
    /\ UNCHANGED disk
    /\ UNCHANGED << nmVars, ccVars, srVars, rmVars, lhVars, lnVars, clVars,
                    utVars, thVars, pnVars, igVars >>

NextScaffold ==
    \/ \E lecture \in Lectures : CreateLectureFolder(lecture)
    \/ WriteDashboard
    \/ WriteLectureNotes
    \/ WriteSection
    \/ SectionsDone
    \/ WriteTail
    \/ ScaffoldReturn

SpecScaffold == Init /\ [][NextScaffold]_vars

Next == NextNewton \/ NextContinuity \/ NextSimpson \/ NextRiemann
        \/ NextLhopital \/ NextLines \/ NextLimit
        \/ NextUtilities
        \/ NextConcurrent
        \/ NextFloatNewton
        \/ NextSimpsonExample
        \/ NextIntegrate
        \/ NextScaffold

Spec == Init /\ [][Next]_vars

\* The fairness of the code's scheduling: a call is synchronous and
\* single-threaded, so a loop pass or a loop exit that can run does run.
SpecNewtonFair ==
    SpecNewton /\ WF_vars(NewtonIterate) /\ WF_vars(NewtonExhausted)

\* The whole call as a function of its arguments: the loop from index idx
\* with approximation v and records recs.
RECURSIVE NewtonLoop(_, _, _, _, _, _)
NewtonLoop(fn, tol, maxit, idx, v, recs) ==
    IF ~InRange(idx, maxit)
    THEN [state |-> "exhausted", warned |-> << WarnMaxIterations >>,
          ret |-> [root |-> Some(v), iterations |-> recs]]
    ELSE LET fxn  == F(fn, v)
             dfxn == DF(fn, v)
             more == Append(recs, IterationRecord(idx, v, fxn, dfxn))
         IN  IF Converged(fxn, tol)
             THEN [state |-> "converged", warned |-> << >>,
                   ret |-> [root |-> Some(v), iterations |-> more]]
             ELSE IF Degenerate(dfxn)
             THEN [state |-> "degenerate", warned |-> << WarnDerivative >>,
                   ret |-> [root |-> None, iterations |-> more]]
             ELSE NewtonLoop(fn, tol, maxit, idx + 1,
                             NewtonUpdate(v, fxn, dfxn), more)

NewtonRun(fn, guess, tol, maxit) == NewtonLoop(fn, tol, maxit, 0, guess, << >>)

\* The stepwise call and the call as a function agree.
NewtonRunAgrees ==
    state \in Terminal =>
        NewtonRun(func, initial_guess, tolerance, max_iterations)
            = [state |-> state, warned |-> warned, ret |-> ret]

\* ----------------------------------------------------------------- claims
LastRecord == iterations[Len(iterations)]

\* record k of the call satisfies the convergence test
RecordConverges(k) == Abs(F(func, iterations[k].x)) < tolerance

\* record k of the call has a derivative below the threshold 1e-15
RecordDegenerate(k) == Abs(DF(func, iterations[k].x)) < DerivEps

C2_Converged ==
    state = "converged" =>
        /\ Len(iterations) = i + 1
        /\ \A k \in 1..Len(iterations) : iterations[k].iteration = k - 1
        /\ ret.iterations = iterations
        /\ ret.root = Some(LastRecord.x)
        /\ Abs(F(func, LastRecord.x)) < tolerance
        /\ warned = << >>

C2_Witness ==
    /\ state = "converged"
    /\ Len(iterations) >= 2
    /\ F(func, LastRecord.x) # 0

\* C3: an iterate with |f(x_n)| >= tolerance and |f'(x_n)| < 1e-15 ends the call
\* in degenerate: it is the last record, one warning (the derivative warning)
\* is emitted, and the call returns (None, records) with the records up to and
\* including this one.
C3_Degenerate ==
    /\ \A k \in 1..Len(iterations) :
          (~RecordConverges(k) /\ RecordDegenerate(k)) =>
              /\ k = Len(iterations)
              /\ state = "degenerate"
    /\ state = "degenerate" =>
          /\ Len(iterations) = i + 1
          /\ ~RecordConverges(Len(iterations))
          /\ RecordDegenerate(Len(iterations))
          /\ warned = << WarnDerivative >>
          /\ ret = [root |-> None, iterations |-> iterations]

\* a derivative that is not zero and still below the threshold, after a pass
C3_Witness ==
    /\ state = "degenerate"
    /\ Len(iterations) >= 2
    /\ DF(func, LastRecord.x) # 0

\* C4: a call whose max_iterations passes all fail both tests ends in
\* exhausted: the loop exit can run, it emits "Maximum iterations reached",
\* and it returns the last x_n (the update of the last record, or the guess
\* when there was no pass) with the records of all max_iterations passes.
C4_Exhausted ==
    /\ (state = "iterating" /\ i = max_iterations) => ENABLED NewtonExhausted
    /\ ( /\ state \in Terminal
         /\ Len(iterations) = max_iterations
         /\ \A k \in 1..Len(iterations) :
               ~RecordConverges(k) /\ ~RecordDegenerate(k) )
       => state = "exhausted"
    /\ state = "exhausted" =>
          /\ Len(iterations) = max_iterations
          /\ \A k \in 1..Len(iterations) :
                ~RecordConverges(k) /\ ~RecordDegenerate(k)
          /\ warned = << WarnMaxIterations >>
          /\ ret = [root |-> Some(xn), iterations |-> iterations]
          /\ xn = IF max_iterations = 0
                  THEN initial_guess
                  ELSE LastRecord.x
                         - RoundDiv(F(func, LastRecord.x), DF(func, LastRecord.x))

C4_Witness ==
    /\ state = "exhausted"
    /\ max_iterations = MaxIterBound
    /\ xn # LastRecord.x

\* what a caller can test on a returned value, knowing the tolerance it passed
IsConvergedReturn(r, tol) ==
    /\ Len(r.iterations) > 0
    /\ Abs(r.iterations[Len(r.iterations)].fx) < tol

\* C5 as stated: the returned value tells which terminal state was reached, so
\* no call of the same function from the same guess returns this value in the
\* other of the two states converged and exhausted.
C5_ValueTellsState ==
    state \in {"converged", "exhausted"} =>
        \A tol \in 0..TolMax, maxit \in 0..MaxIterBound :
            LET other == NewtonRun(func, initial_guess, tol, maxit)
            IN  other.ret = ret => other.state = state

\* C5 amended: the returned pair has no state in it; with the tolerance it
\* passed the caller tells the two apart: converged iff the last record's
\* |f(x)| < tolerance, and only the exhausted return comes with the warning.
C5_CallerTellsState ==
    /\ state = "converged" =>
          /\ IsConvergedReturn(ret, tolerance)
          /\ warned = << >>
    /\ state = "exhausted" =>
          /\ ~IsConvergedReturn(ret, tolerance)
          /\ ret.root # None
          /\ warned = << WarnMaxIterations >>

\* an exhausted return whose root is the last record's x, as in a converged one
C5_Witness ==
    /\ state = "exhausted"
    /\ Len(iterations) >= 1
    /\ ret.root = Some(LastRecord.x)

\* the text argument of the last check_continuity call parsed, or the
\* argument was symbolic: the try block was entered
ContinuityParsed == cc_in.text => cc_in.parses

\* the engine raised inside the try block of the last check_continuity call
RaisedInTry ==
    /\ ContinuityParsed
    /\ \/ cc_in.f_a.kind = "raise"
       \/ /\ cc_in.f_a.kind = "finite"
          /\ \/ cc_in.lim_val.kind = "raise"
             \/ /\ cc_in.lim_val.kind \in {"finite", "oo", "-oo"}
                /\ cc_in.simplify_raises

\* C6 as stated: a text argument that fails to parse makes check_continuity
\* return (False, reason) instead of raising the parse error.
C6_ParseErrorCaught ==
    (cc_ret # NoCall /\ cc_in.text /\ ~cc_in.parses) =>
        /\ cc_ret.kind = "returned"
        /\ cc_ret.ok = FALSE

\* C7: an exception raised by f(point), by the limit or by the simplification
\* is caught and returned as (False, "Error checking continuity: <e>"); a call
\* whose try block was entered never raises.
C7_EvaluationErrorsCaught ==
    cc_ret # NoCall =>
        /\ RaisedInTry =>
              /\ cc_ret.kind = "returned"
              /\ cc_ret.ok = FALSE
              /\ cc_ret.reason.template = "Error checking continuity: {e}"
              /\ cc_ret.reason.args = << cc_in.exc >>
        /\ ContinuityParsed => cc_ret.kind = "returned"

C7_Witness ==
    /\ cc_ret # NoCall
    /\ cc_in.simplify_raises
    /\ cc_in.exc = "NotImplementedError"
    /\ cc_calls = << "sympify", "subs", "limit", "simplify" >>
    /\ cc_ret.kind = "returned"
    /\ cc_ret.reason.template = "Error checking continuity: {e}"

\* f(point) exists, the limit exists, and simplify(limit - f(point)) is 0
ContinuousAnswers ==
    /\ cc_in.f_a.kind = "finite"
    /\ cc_in.lim_val.kind = "finite"
    /\ ~cc_in.simplify_raises
    /\ cc_in.lim_val.n = cc_in.f_a.n

C9_MissingValueReported ==
    ( /\ cc_ret # NoCall
      /\ ContinuityParsed
      /\ cc_in.f_a.kind \in {"nan", "zoo", "oo", "-oo"} )
    => /\ cc_ret.kind = "returned"
       /\ cc_ret.ok = FALSE
       /\ cc_ret.reason.template = "f({point}) does not exist"
       /\ cc_ret.reason.args = << cc_in.point >>
       /\ \A k \in 1..Len(cc_calls) : cc_calls[k] # "limit"

\* check_continuity(1/x, x, 0): f(0) is zoo
C9_Witness ==
    /\ cc_ret # NoCall
    /\ ~cc_in.text
    /\ cc_in.f_a = Zoo
    /\ cc_in.point = 0
    /\ cc_ret.kind = "returned"
    /\ cc_ret.ok = FALSE

\* C10: for every odd n simpsons_rule raises ValueError and returns nothing,
\* before the expression is parsed or any sample is evaluated, whatever func
\* and the bounds are.
C10_OddRejected ==
    (sr_ret # NoCall /\ sr_in.n % 2 = 1) =>
        /\ sr_ret.kind = "raised"
        /\ sr_ret.exc = "ValueError"
        /\ sr_ret.msg = NotEvenMessage
        /\ sr_calls = << >>

\* an odd n with a text func that would not parse
C10_Witness ==
    /\ sr_ret # NoCall
    /\ sr_in.n < 0
    /\ sr_in.n % 2 = 1
    /\ sr_in.text
    /\ ~sr_in.parses
    /\ sr_ret.kind = "raised"
    /\ sr_ret.exc = "ValueError"

\* the text argument of the last simpsons_rule call parsed, or it was symbolic
SimpsonParsed == sr_in.text => sr_in.parses

\* the composite Simpson weight of sample k of n + 1
SimpsonWeight(k, n) ==
    IF k = 0 \/ k = n THEN 1 ELSE IF k % 2 = 1 THEN 4 ELSE 2

\* the sum of w_k * f(lower + k*h) over k = from..n
RECURSIVE SimpsonWeighted(_, _, _, _, _)
SimpsonWeighted(fn, lower, h, n, from) ==
    IF from > n THEN RInt(0)
    ELSE RAdd(RMul(RInt(SimpsonWeight(from, n)),
                   FRat(fn, RAdd(RInt(lower), RMul(RInt(from), h)))),
              SimpsonWeighted(fn, lower, h, n, from + 1))

\* (h/3) * sum of w_k * f(x_k) for the arguments of the last call
SimpsonExpected ==
    LET h == Rat(sr_in.upper - sr_in.lower, sr_in.n)
    IN  RMul(RMul(h, Rat(1, 3)),
             SimpsonWeighted(sr_in.func, sr_in.lower, h, sr_in.n, 0))

\* C11: for every even n >= 2 simpsons_rule returns (h/3) * sum of w_i*f(x_i)
\* over the n+1 samples x_i = lower + i*h, with weights 1, 4, 2, ..., 4, 1.
C11_SimpsonWeights ==
    (sr_ret # NoCall /\ SimpsonParsed /\ sr_in.n % 2 = 0 /\ sr_in.n >= 2) =>
        /\ sr_ret.kind = "returned"
        /\ sr_ret.value = SimpsonExpected

\* The weighting itself: C11 for the integrands that contain the variable.
SimpsonWeightsOfArrays ==
    ( /\ sr_ret # NoCall
      /\ SimpsonParsed
      /\ sr_in.n % 2 = 0
      /\ sr_in.n >= 2
      /\ ~(sr_in.func.a = 0 /\ sr_in.func.b = 0) )
    => /\ sr_ret.kind = "returned"
       /\ sr_ret.value = SimpsonExpected

\* the text argument of the last riemann_sum call parsed, or it was symbolic
RiemannParsed == rm_in.text => rm_in.parses

\* C12: riemann_sum rejects n = 0 for every method: the call raises an error
\* and returns no approximation.
C12_ZeroRejected ==
    (rm_ret # NoCall /\ rm_in.n = 0 /\ rm_in.method \in RiemannMethods) =>
        rm_ret.kind = "raised"

\* With Python numbers as bounds the division (upper - lower) / 0 raises.
ZeroRejectedForPythonBounds ==
    (rm_ret # NoCall /\ rm_in.n = 0 /\ ~rm_in.np_bounds) =>
        /\ rm_ret.kind = "raised"
        /\ (RiemannParsed => rm_ret.exc = "ZeroDivisionError")

\* sample k of the method, for dx = (upper - lower) / n
RiemannSample(method, lower, dx, k) ==
    IF method = "right" THEN RAdd(RInt(lower), RMul(RInt(k + 1), dx))
    ELSE IF method = "midpoint"
    THEN RAdd(RInt(lower), RMul(Rat(2 * k + 1, 2), dx))
    ELSE RAdd(RInt(lower), RMul(RInt(k), dx))

\* the sum of weight * f(sample k) * dx over k = from..last
RECURSIVE RiemannTerms(_, _, _, _, _, _)
RiemannTerms(fn, method, lower, dx, from, last) ==
    IF from > last THEN RInt(0)
    ELSE LET w == IF method = "trapezoid" /\ (from = 0 \/ from = last)
                  THEN Rat(1, 2) ELSE RInt(1)
         IN  RAdd(RMul(w, RMul(FRat(fn, RiemannSample(method, lower, dx, from)),
                               dx)),
                  RiemannTerms(fn, method, lower, dx, from + 1, last))

\* the sum of the claim for the arguments of the last call
RiemannExpected ==
    LET dx == Rat(rm_in.upper - rm_in.lower, rm_in.n)
    IN  RiemannTerms(rm_in.func, rm_in.method, rm_in.lower, dx, 0,
                     IF rm_in.method = "trapezoid"
                     THEN rm_in.n ELSE rm_in.n - 1)

\* C13: for n >= 1 riemann_sum returns the sum of f(x_i)*dx over the n samples
\* of 'left', 'right', 'midpoint', or over the n+1 samples of 'trapezoid' with
\* the two endpoint values weighted 1/2.
C13_RiemannSamples ==
    ( /\ rm_ret # NoCall
      /\ RiemannParsed
      /\ rm_in.n >= 1
      /\ rm_in.method \in RiemannMethods )
    => /\ rm_ret.kind = "returned"
       /\ rm_ret.value = RiemannExpected

\* The sampling itself: C13 for the integrands that contain the variable.
RiemannSamplesOfArrays ==
    ( /\ rm_ret # NoCall
      /\ RiemannParsed
      /\ rm_in.n >= 1
      /\ rm_in.method \in RiemannMethods
      /\ ~(rm_in.func.a = 0 /\ rm_in.func.b = 0) )
    => /\ rm_ret.kind = "returned"
       /\ rm_ret.value = RiemannExpected

\* C14: for every n >= 1 and every linear integrand b*x + c, 'trapezoid' over
\* [0, 1] returns the exact integral b/2 + c.
C14_TrapezoidExact ==
    ( /\ rm_ret # NoCall
      /\ RiemannParsed
      /\ rm_in.n >= 1
      /\ rm_in.method = "trapezoid"
      /\ rm_in.func.a = 0
      /\ rm_in.lower = 0
      /\ rm_in.upper = 1 )
    => /\ rm_ret.kind = "returned"
       /\ rm_ret.value = RAdd(Rat(rm_in.func.b, 2), RInt(rm_in.func.c))

\* The exactness itself: C14 for the linear integrands that contain the
\* variable.
TrapezoidExactOfArrays ==
    ( /\ rm_ret # NoCall
      /\ RiemannParsed
      /\ rm_in.n >= 1
      /\ rm_in.method = "trapezoid"
      /\ rm_in.func.a = 0
      /\ rm_in.func.b # 0
      /\ rm_in.lower = 0
      /\ rm_in.upper = 1 )
    => /\ rm_ret.kind = "returned"
       /\ rm_ret.value = RAdd(Rat(rm_in.func.b, 2), RInt(rm_in.func.c))

\* the form of a record is one of 0/0, oo/oo, (-oo)/(-oo)
IndeterminateForm(rec) ==
    \/ rec.num_limit.kind = "finite" /\ rec.num_limit.n = 0
       /\ rec.den_limit.kind = "finite" /\ rec.den_limit.n = 0
    \/ rec.num_limit.kind = "oo" /\ rec.den_limit.kind = "oo"
    \/ rec.num_limit.kind = "-oo" /\ rec.den_limit.kind = "-oo"

DenominatorZero(rec) ==
    rec.den_limit.kind = "finite" /\ rec.den_limit.n = 0

\* the record of the form that ended the loop of the last lhopital_rule call
LastForm == lh_steps[Len(lh_steps)]

\* C15: at the first examined form whose (numerator limit, denominator limit)
\* is none of (0,0), (oo,oo), (-oo,-oo), lhopital_rule returns num/den when
\* the denominator limit is not 0 and oo when it is 0, together with the
\* records of all forms examined, this one included.
C15_Determinate ==
    (lh_state = "resolved") =>
        /\ Len(lh_steps) >= 1
        /\ ~IndeterminateForm(LastForm)
        /\ \A j \in 1..(Len(lh_steps) - 1) : IndeterminateForm(lh_steps[j])
        /\ lh_ret.kind = "returned"
        /\ lh_ret.steps = lh_steps
        /\ IF DenominatorZero(LastForm)
           THEN lh_ret.value.kind = "oo"
           ELSE lh_ret.value = EngineDiv(LastForm.num_limit,
                                         LastForm.den_limit)

\* a call returned oo for a zero denominator limit after an oo/oo form
C15_Witness ==
    /\ lh_state = "resolved"
    /\ Len(lh_steps) = 2
    /\ lh_steps[1].num_limit.kind = "oo"
    /\ DenominatorZero(LastForm)
    /\ lh_ret.value.kind = "oo"

\* a call returned the quotient -1/1 of the limits of its first form
C15_WitnessQuotient ==
    /\ lh_state = "resolved"
    /\ Len(lh_steps) = 1
    /\ lh_ret.value.kind = "rational"
    /\ lh_ret.value.q = RInt(-1)

\* C16: if all max_iterations examined forms are indeterminate, lhopital_rule
\* differentiates exactly max_iterations times and returns the limit of the
\* ratio of the final derivatives with exactly max_iterations records; with
\* max_iterations = 0 it returns the limit of numerator/denominator and an
\* empty list.
C16_Exhausted ==
    /\ lh_i <= lh_max
    /\ Len(lh_steps) <= lh_max
    /\ (lh_state = "exhausted") =>
        /\ \A j \in 1..Len(lh_steps) : IndeterminateForm(lh_steps[j])
        /\ Len(lh_steps) = lh_max
        /\ lh_num = lh_max
        /\ lh_den = lh_max
        /\ lh_ret.kind = "returned"
        /\ lh_ret.steps = lh_steps
        /\ lh_ret.value.kind = "limit"
        /\ lh_ret.value.numerator = lh_max
        /\ lh_ret.value.denominator = lh_max
        /\ (lh_max = 0 => lh_ret.steps = << >>)

\* a call with max_iterations = 2 saw two indeterminate forms
C16_Witness ==
    /\ lh_state = "exhausted"
    /\ lh_max = 2
    /\ Len(lh_steps) = 2
    /\ lh_ret.value.numerator = 2

\* a call with max_iterations = 0 returned the limit of the quotient
C16_WitnessZero ==
    /\ lh_state = "exhausted"
    /\ lh_max = 0
    /\ lh_ret.steps = << >>

\* the engine's limits at 0 of the derivatives of sin(x) and of x
SinLimit(order) == IF order % 2 = 0 THEN Fin(0)
                   ELSE IF order % 4 = 1 THEN Fin(1) ELSE Fin(-1)
XLimit(order) == IF order = 1 THEN Fin(1) ELSE Fin(0)

\* the last lhopital_rule call was given sin(x)/x at 0
SinOverX ==
    \A j \in 1..Len(lh_steps) :
        /\ lh_steps[j].num_limit = SinLimit(lh_steps[j].numerator)
        /\ lh_steps[j].den_limit = XLimit(lh_steps[j].denominator)

\* C17: if the forms after 0..k-1 differentiations are indeterminate and the
\* form after k differentiations is not, k < max_iterations, lhopital_rule
\* returns after exactly k differentiations with k+1 records whose indices
\* are 0..k; sin(x)/x at 0 resolves to 1 after one differentiation.
C17_ResolvedAfterK ==
    (lh_state = "resolved") =>
        LET k == Len(lh_steps) - 1
        IN  /\ k >= 0
            /\ k < lh_max
            /\ lh_num = k
            /\ lh_den = k
            /\ Len(lh_ret.steps) = k + 1
            /\ \A j \in 1..(k + 1) :
                  /\ lh_ret.steps[j].iteration = j - 1
                  /\ lh_ret.steps[j].numerator = j - 1
                  /\ lh_ret.steps[j].denominator = j - 1
                  /\ IndeterminateForm(lh_ret.steps[j]) <=> j <= k
            /\ SinOverX =>
                  /\ k = 1
                  /\ lh_ret.value.kind = "rational"
                  /\ lh_ret.value.q = RInt(1)

\* sin(x)/x at 0 was resolved
C17_Witness ==
    /\ lh_state = "resolved"
    /\ SinOverX
    /\ lh_max >= 2
    /\ Len(lh_ret.steps) = 2

\* the last tangent_line or normal_line call returned
LineReturned(op) ==
    /\ ln_ret # NoCall
    /\ ln_ret.kind = "returned"
    /\ ln_ret.op = op

\* the last call got past sympify
LineParsed == ln_in.text => ln_in.parses

\* C18: normal_line returns (None, f(point)) whenever the slope f'(point) is
\* 0, performing no division; for a non-zero slope it returns the line
\* (-1/slope)*(var - point) + f(point) together with f(point).
C18_NormalLine ==
    (ln_ret # NoCall /\ LineParsed /\ ln_ret.kind # "raised"
       /\ ln_ret.op = "normal_line") =>
        LET m == DFRat(ln_in.func, ln_in.point)
            y == FRat(ln_in.func, ln_in.point)
        IN  /\ ln_ret.y_val = y
            /\ IF m.num = 0
               THEN /\ ln_ret.line.kind = "None"
                    /\ \A j \in 1..Len(ln_ret.calls) :
                          ln_ret.calls[j] # "div"
               ELSE /\ ln_ret.line.kind = "line"
                    /\ RMul(ln_ret.line.slope, m) = RInt(-1)
                    /\ LineAt(ln_ret.line, ln_in.point) = y
                    /\ LineAt(ln_ret.line, RAdd(ln_in.point, RInt(1)))
                         = RAdd(y, RDiv(RInt(-1), m))

\* normal_line returned the sentinel for a horizontal tangent
C18_Witness ==
    /\ LineReturned("normal_line")
    /\ ln_ret.line.kind = "None"
    /\ ln_in.func.a = 1
    /\ ln_ret.y_val # RInt(0)

\* normal_line returned a line for a slope that is no unit
C18_WitnessLine ==
    /\ LineReturned("normal_line")
    /\ ln_ret.line.kind = "line"
    /\ ln_ret.slope = RInt(2)

\* C19: tangent_line returns (tangent, slope, f(point)) with
\* tangent = slope*(var - point) + f(point), and substituting var = point
\* into the tangent yields f(point) exactly.
C19_TangentLine ==
    (ln_ret # NoCall /\ LineParsed /\ ln_ret.kind # "raised"
       /\ ln_ret.op = "tangent_line") =>
        LET m == DFRat(ln_in.func, ln_in.point)
            y == FRat(ln_in.func, ln_in.point)
        IN  /\ ln_ret.slope = m
            /\ ln_ret.y_val = y
            /\ ln_ret.line.kind = "line"
            /\ ln_ret.line.slope = m
            /\ LineAt(ln_ret.line, ln_in.point) = y
            /\ \A d \in -1..1 :
                  LineAt(ln_ret.line, RAdd(ln_in.point, RInt(d)))
                    = RAdd(y, RMul(m, RInt(d)))

\* tangent_line returned a sloping tangent at a point that is not 0
C19_Witness ==
    /\ LineReturned("tangent_line")
    /\ ln_in.point.num # 0
    /\ ln_ret.slope.num # 0
    /\ ln_ret.y_val.num # 0

\* the last compute_limit call got past sympify
LimitParsed == cl_in.text => cl_in.parses

\* the last compute_limit call returned the value v
LimitIs(v) == cl_ret.kind = "returned" /\ cl_ret.value = v

\* C20: compute_limit computes the two-sided limit when direction is None,
\* the right-hand limit when direction is '+' and the left-hand limit when
\* direction is '-'.
C20_Directional ==
    (cl_ret # NoCall /\ LimitParsed) =>
        IF cl_in.direction = "+" THEN LimitIs(cl_in.expr.right)
        ELSE IF cl_in.direction = "-" THEN LimitIs(cl_in.expr.left)
        ELSE IF cl_in.expr.left = cl_in.expr.right
        THEN LimitIs(cl_in.expr.right)
        ELSE cl_ret.kind = "raised"

\* What the code computes: the right-hand limit also for direction None.
NoneIsRightHand ==
    (cl_ret # NoCall /\ LimitParsed) =>
        IF cl_in.direction = "-" THEN LimitIs(cl_in.expr.left)
        ELSE LimitIs(cl_in.expr.right)

\* C21: no error is swallowed anywhere except in check_continuity: in every
\* other operation an exception raised inside it propagates to the caller.
C21_ErrorsPropagate ==
    (ut_ret # NoCall /\ ut_ret.raised_inside # << >>) =>
        ut_ret.kind = "raised"

\* What the code does: format_step_by_step drops the exception of the try
\* block without a trace, plot_function turns it into a warning.
ErrorsSwallowed ==
    (ut_ret # NoCall /\ ut_ret.raised_inside # << >>
       /\ ut_ret.kind = "returned") =>
        IF ut_ret.op = "format_step_by_step"
        THEN ut_ret.warned = << >>
        ELSE ut_ret.warned = << "Error plotting function" >>

\* what the call of thread t returns when it runs alone
RunAlone(t) ==
    NewtonRun(th[t].func, th[t].initial_guess, th[t].tolerance,
              th[t].max_iterations)

\* C22: no operation keeps or writes state across calls: the module-level
\* symbols are never reassigned, every record list is created inside its
\* call, and under every interleaving of concurrent calls each call returns
\* what it returns when run alone.
C22_NoCrossCallState ==
    /\ symbols = ModuleSymbols
    /\ \A t \in Threads :
          /\ th[t].state = "idle" => th[t] = ThreadIdle
          /\ th[t].state \in Terminal =>
                /\ th[t].ret = RunAlone(t).ret
                /\ th[t].state = RunAlone(t).state
                /\ th[t].warned = RunAlone(t).warned

\* one thread returned a root after two passes while the other is in its loop
C22_Witness ==
    /\ th[1].state = "converged"
    /\ Len(th[1].ret.iterations) = 2
    /\ th[2].state = "iterating"
    /\ th[2].i >= 1
    /\ th[2].func # th[1].func

\* the call newtons_method(x**2 - 2, initial_guess=1, tolerance=1e-10)
SqrtTwoCall ==
    /\ pn.state # "idle"
    /\ pn.func = [a |-> 1, b |-> 0, c |-> -2]
    /\ pn.initial_guess = 1
    /\ pn.tolerance = FxPowTen(10)
    /\ pn.max_iterations = 100

\* the limbs of 141421356237, lowest first
SqrtTwoDigits == << 6237, 2135, 1414 >>

\* C23: newtons_method(x**2 - 2, initial_guess=1, tolerance=1e-10) ends in
\* converged in under 10 iterations and returns a root r with
\* |r^2 - 2| < 1e-10, r = 1.41421356237...
C23_SqrtTwo ==
    SqrtTwoCall =>
        /\ pn.i < 10
        /\ Len(pn.iterations) < 10
        /\ pn.state \in Terminal =>
              /\ pn.state = "converged"
              /\ pn.ret.root # None
              /\ LET r == pn.ret.root[1]
                 IN  /\ FxAbsLess(FxSub(FxMul(r, r), FxOfInt(2)),
                                  FxPowTen(10))
                     /\ ~r.neg
                     /\ DDiv(r.mag, DPowTen(4 * FracLimbs - 11)) = SqrtTwoDigits

\* the call returned its root
C23_Witness ==
    /\ SqrtTwoCall
    /\ pn.state = "converged"
    /\ Len(pn.ret.iterations) = 5

\* ---------------------------------------------------------------- C24
\* the call in flight is the example call x**2 on [0, 1] with n = 10
IsExampleCall ==
    /\ sr_ret # NoCall
    /\ sr_in.func = ExampleCall.func
    /\ sr_in.lower = ExampleCall.lower
    /\ sr_in.upper = ExampleCall.upper
    /\ sr_in.n = ExampleCall.n

\* |v - 1/3| < 1e-6 for a rational v
NearOneThird(v) == Abs(3 * v.num - v.den) * 1000000 < 3 * v.den

\* C24: simpsons_rule(lambda x: x**2, 0, 1, n=10), the integrand given as a
\* Python callable, returns a value within 1e-6 of 1/3.
C24_LambdaExample ==
    (IsExampleCall /\ sr_in.callable) =>
        /\ sr_ret.kind = "returned"
        /\ NearOneThird(sr_ret.value)

\* The same call with the integrand given as the sympy expression x**2
\* returns exactly 1/3.
ExpressionExampleExact ==
    (IsExampleCall /\ ~sr_in.callable) =>
        /\ sr_ret.kind = "returned"
        /\ sr_ret.value = Rat(1, 3)

\* A callable integrand and an even n: the call raises in sp.lambdify.
CallableRaises ==
    (sr_ret # NoCall /\ sr_in.callable /\ sr_in.n % 2 = 0) =>
        /\ sr_ret.kind = "raised"
        /\ sr_calls = << "lambdify" >>

\* ---------------------------------------------------------------- C25
\* a step that runs the loop body once
LoopBodyStep == state = "iterating" /\ Len(iterations') = Len(iterations) + 1

\* What one pass of the loop body does, in order: f and f' are evaluated at
\* x_n and the record is appended whatever the tests say; the convergence
\* test decides first; the degeneracy test decides only when that one failed;
\* the update is made only when both failed.
LoopBodyInOrder ==
    LoopBodyStep =>
        LET fxn  == F(func, xn)
            dfxn == DF(func, xn)
        IN  /\ iterations' =
                 Append(iterations, IterationRecord(i, xn, fxn, dfxn))
            /\ Abs(fxn) < tolerance =>
                 /\ state' = "converged"
                 /\ ret' = [root |-> Some(xn), iterations |-> iterations']
                 /\ warned' = warned
            /\ (Abs(fxn) >= tolerance /\ Abs(dfxn) < DerivEps) =>
                 /\ state' = "degenerate"
                 /\ ret' = [root |-> None, iterations |-> iterations']
            /\ (Abs(fxn) >= tolerance /\ Abs(dfxn) >= DerivEps) =>
                 /\ state' = "iterating"
                 /\ i' = i + 1
                 /\ xn' = xn - RoundDiv(fxn, dfxn)
            /\ (i' # i \/ xn' # xn) => Abs(dfxn) >= DerivEps

\* C25: within each iteration newtons_method evaluates f and f' at x_n,
\* appends the record, tests convergence, tests derivative degeneracy and
\* only then updates; so an iterate with |f(x_n)| < tolerance and
\* |f'(x_n)| < 1e-15 is reported as converged, and the update never divides
\* by a derivative of magnitude below 1e-15.
C25_FixedOrder ==
    /\ [][LoopBodyInOrder]_vars
    /\ []( ( /\ state \in Terminal
             /\ Len(iterations) > 0
             /\ Abs(LastRecord.fx) < tolerance
             /\ Abs(LastRecord.dfx) < DerivEps )
           => ( /\ state = "converged"
                /\ ret.root = Some(LastRecord.x)
                /\ warned = << >> ) )

\* a call reported converged at an iterate where the derivative is
\* degenerate as well
C25_Witness ==
    /\ state = "converged"
    /\ Abs(LastRecord.fx) < tolerance
    /\ Abs(LastRecord.dfx) < DerivEps
    /\ LastRecord.fx # 0

\* ---------------------------------------------------------------- C26
\* new is old with one record appended, numbered by its position
AppendsOne(old, new) ==
    /\ Len(new) = Len(old) + 1
    /\ SubSeq(new, 1, Len(old)) = old
    /\ new[Len(new)].iteration = Len(old)

\* The list of newtons_method changes only by an append inside a running
\* call, or by being created empty at the call, or by going with the call's
\* frame at its end.
NewtonRecordsStep ==
    /\ iterations' # iterations =>
          \/ state = "iterating" /\ AppendsOne(iterations, iterations')
          \/ state \in Terminal /\ state' = "idle" /\ iterations' = << >>
    /\ (state = "idle" /\ state' # "idle") => iterations' = << >>

\* the same for the list of lhopital_rule
LhopitalRecordsStep ==
    /\ lh_steps' # lh_steps =>
          \/ lh_state = "looping" /\ AppendsOne(lh_steps, lh_steps')
          \/ /\ lh_state \in {"resolved", "exhausted"}
             /\ lh_state' = "idle"
             /\ lh_steps' = << >>
    /\ (lh_state = "idle" /\ lh_state' # "idle") => lh_steps' = << >>

\* the k-th record carries index k (from 0), and there are at most max of them
RecordsNumbered(recs, max) ==
    /\ Len(recs) <= max
    /\ \A k \in 1..Len(recs) : recs[k].iteration = k - 1

\* C26: the record lists of newtons_method and lhopital_rule are built fresh
\* in each call and only appended to: the k-th record appended has index k
\* (from 0), no record is changed or removed afterwards, and the list is
\* never longer than max_iterations.
C26_RecordsAppendOnly ==
    /\ [][NewtonRecordsStep /\ LhopitalRecordsStep]_vars
    /\ [](state # "idle" => RecordsNumbered(iterations, max_iterations))
    /\ [](lh_state # "idle" => RecordsNumbered(lh_steps, lh_max))
    /\ [](state \in Terminal => ret.iterations = iterations)
    /\ [](lh_state \in {"resolved", "exhausted"} => lh_ret.steps = lh_steps)

\* a call of newtons_method returning max_iterations >= 2 records
C26_Witness ==
    /\ state \in Terminal
    /\ Len(iterations) = max_iterations
    /\ max_iterations >= 2

\* a call of lhopital_rule returning max_iterations >= 2 records
LhopitalRecordsFull ==
    /\ lh_state \in {"resolved", "exhausted"}
    /\ Len(lh_steps) = lh_max
    /\ lh_max >= 2

\* ---------------------------------------------------------------- C27
\* the call ended at the loop exit after at least one pass
ExhaustedAfterPasses == state = "exhausted" /\ max_iterations >= 1

\* the correction f(x)/f'(x) of the last record, as the arithmetic rounds it
LastCorrection == RoundDiv(LastRecord.fx, LastRecord.dfx)

\* C27 as stated: on a max-iterations-reached return with max_iterations >= 1
\* the returned value is the Newton update of the last record and differs
\* from the last record's 'x' whenever f(x) != 0 there.
C27_UpdateMovesOffRecord ==
    ExhaustedAfterPasses =>
        /\ ret.root = Some(LastRecord.x - LastCorrection)
        /\ LastRecord.fx # 0 => ret.root # Some(LastRecord.x)

\* C27 amended: on a max-iterations-reached return with max_iterations >= 1
\* the returned value is the Newton update x - f(x)/f'(x) of the last record,
\* an iterate of index max_iterations that has no record and at which f was
\* never evaluated; it differs from the last record's 'x' exactly when the
\* correction f(x)/f'(x) does not round to zero, for which f(x) != 0 is
\* necessary and not sufficient.  With max_iterations = 0 the call returns
\* float(initial_guess) with an empty record list and the exhaustion warning.
C27_ExhaustedReturn ==
    /\ ExhaustedAfterPasses =>
          /\ ret.root = Some(LastRecord.x - LastCorrection)
          /\ ret.iterations = iterations
          /\ Len(iterations) = max_iterations
          /\ \A k \in 1..Len(iterations) :
                iterations[k].iteration < max_iterations
          /\ i = max_iterations
          /\ ret.root # Some(LastRecord.x) <=> LastCorrection # 0
          /\ LastCorrection # 0 => LastRecord.fx # 0
          /\ warned = << WarnMaxIterations >>
    /\ (state = "exhausted" /\ max_iterations = 0) =>
          /\ ret = [root |-> Some(initial_guess), iterations |-> << >>]
          /\ warned = << WarnMaxIterations >>

\* an exhausted return that equals the last record's x although f is not
\* zero there
C27_Witness ==
    /\ ExhaustedAfterPasses
    /\ LastRecord.fx # 0
    /\ ret.root = Some(LastRecord.x)

\* an exhausted return that moved off the last record
ExhaustedMoved == ExhaustedAfterPasses /\ ret.root # Some(LastRecord.x)

\* an exhausted return of a call with max_iterations = 0
ExhaustedNoPass == state = "exhausted" /\ max_iterations = 0

\* ---------------------------------------------------------------- C28
\* a call of riemann_sum with a method that is none of the four has ended
UnknownMethodCall == rm_ret # NoCall /\ rm_in.method \notin RiemannMethods

\* C28 as stated: riemann_sum called with a method other than 'left',
\* 'right', 'midpoint' or 'trapezoid' raises no error and returns None
\* (func being an expression or a text that parses).
C28_UnknownMethodReturnsNone ==
    (UnknownMethodCall /\ RiemannParsed) => rm_ret.kind = "returned_none"

\* C28 amended: with a method that is none of the four, riemann_sum still
\* parses a text func and computes dx = (upper - lower) / n before it looks
\* at the method, so a text that does not parse and n = 0 with Python-number
\* bounds raise as they do for every method; in every other case the call
\* raises no error and returns None, without building the sample points or
\* evaluating func.
C28_UnknownMethod ==
    UnknownMethodCall =>
        IF rm_in.text /\ ~rm_in.parses
        THEN /\ rm_ret.kind = "raised"
             /\ rm_ret.exc = "SympifyError"
        ELSE IF rm_in.n = 0 /\ ~rm_in.np_bounds
        THEN /\ rm_ret.kind = "raised"
             /\ rm_ret.exc = "ZeroDivisionError"
        ELSE /\ rm_ret.kind = "returned_none"
             /\ rm_calls = (IF rm_in.text THEN << "sympify" >> ELSE << >>)
                              \o << "lambdify" >>

\* a call with an unknown method, a constant integrand and n >= 1 returned
\* None
C28_Witness ==
    /\ UnknownMethodCall
    /\ rm_in.n >= 1
    /\ LambdifiedScalar(rm_in.func)
    /\ rm_ret.kind = "returned_none"

\* a call with an unknown method and n = 0 raised
UnknownMethodZeroN ==
    /\ UnknownMethodCall
    /\ rm_in.n = 0
    /\ rm_ret.kind = "raised"

\* ---------------------------------------------------------------- C29
\* exactly one of the two bounds of the last integrate call was given
OneBoundGiven == (ig_in.lower = None) # (ig_in.upper = None)

\* the elements of a sequence
CallsOf(calls) == { calls[k] : k \in 1..Len(calls) }

IntegrateParsed == ig_in.text => ig_in.parses

\* C29: integrate computes a definite integral only when both lower and
\* upper are not None (0 is a bound like any other); when exactly one bound
\* is given the call does what it does with none: the bound is ignored and
\* the indefinite integral of the expression is returned, with no error.
C29_OneBoundIgnored ==
    ig_ret # NoCall =>
        /\ "integrate(expr, (var, lower, upper))" \in CallsOf(ig_ret.calls)
              <=> (IntegrateParsed /\ ig_in.lower # None /\ ig_in.upper # None)
        /\ (IntegrateParsed /\ ig_in.lower # None /\ ig_in.upper # None) =>
              /\ ig_ret.ret.kind = "returned"
              /\ ig_ret.ret.value =
                    DefiniteValue(ig_in.expr, ig_in.lower[1], ig_in.upper[1])
        /\ OneBoundGiven =>
              /\ ig_ret = IntegrateResult([ig_in EXCEPT !.lower = None,
                                                        !.upper = None])
              /\ IntegrateParsed =>
                    /\ ig_ret.ret.kind = "returned"
                    /\ ig_ret.ret.value = Antiderivative(ig_in.expr)

\* a call with the lower bound 0 alone returned the antiderivative
C29_Witness ==
    /\ ig_ret # NoCall
    /\ ig_in.lower = Some(0)
    /\ ig_in.upper = None
    /\ ig_in.expr.b # 0
    /\ ig_ret.ret.kind = "returned"
    /\ ig_ret.ret.value.kind = "expression"

\* a call with the bounds 0 and 1 returned a number
IntegrateDefinite ==
    /\ ig_ret # NoCall
    /\ ig_in.lower = Some(0)
    /\ ig_in.upper = Some(1)
    /\ ig_ret.ret.kind = "returned"
    /\ ig_ret.ret.value.kind = "number"

\* ---------------------------------------------------------------- C30
\* the number of sections of the lecture of the running call
SectionCount == Len(sc.lecture.openstax)

\* the files of the lecture's folder
FolderFiles == { f.name : f \in { g \in disk.files : g.folder = sc.lecture.num } }

\* the j-th notebook of a lecture with k sections has the stem of its place
StemInOrder(name, j, k) ==
    IF j = 1 THEN name.stem = "Overview_Master_Dashboard" /\ name.section = << >>
    ELSE IF j = 2 THEN name.stem = "Lecture_Notes_MIT" /\ name.section = << >>
    ELSE IF j <= 2 + k
    THEN /\ name.stem = "OpenStax_Ch"
         /\ name.section = SectionSafe(sc.lecture.openstax[j - 2])
         /\ "." \notin CallsOf(name.section)
    ELSE name.stem = TailStems[j - 2 - k] /\ name.section = << >>

\* The call has written all its notebooks: 7 + k of them, the j-th with the
\* two-digit prefix of j and the stem of its place, and the folder holds
\* these files and no other.
LectureFolderComplete ==
    sc.pc = "done" =>
        /\ Len(sc.written) = 7 + SectionCount
        /\ \A j \in 1..Len(sc.written) :
              /\ sc.written[j].prefix =
                    << DigitChars[(j \div 10) + 1], DigitChars[(j % 10) + 1] >>
              /\ StemInOrder(sc.written[j], j, SectionCount)
        /\ FolderFiles = CallsOf(sc.written)
        /\ Cardinality(FolderFiles) = 7 + SectionCount

\* a call on a lecture whose folder is there changes nothing on the disk
RerunAddsNone ==
    /\ (sc.pc # "idle" /\ sc.rerun) => disk' = disk
    /\ (sc.pc = "idle" /\ sc'.pc # "idle" /\ sc'.rerun) => disk' = disk

\* C30: create_lecture_folder, for a lecture with k sections, writes exactly
\* 7 + k notebooks with the two-digit prefixes 01 .. 7+k, no gap and no
\* repeat, in the order dashboard, lecture notes, the k sections in table
\* order, problem-set activities, flashcards, interactive playground,
\* exercise bank, AI Q&A journal; a second run on the same lecture rewrites
\* the same files and adds none.
C30_LectureFolder == []LectureFolderComplete /\ [][RerunAddsNone]_vars

\* a second run on the lecture with the most sections has written its files
C30_Witness ==
    /\ sc.pc = "done"
    /\ sc.rerun
    /\ SectionCount = SectionsMax

====
